---- MODULE Spec2Model ----
(***************************************************************************)
(* Model of the thermal-events library: the temporal aggregation of an     *)
(* event (ThermalEvent.add_hot_spot / ThermalEvent.compute), the           *)
(* budget-constrained construction of an instance from a polygon           *)
(* (from_polygon), the polygon codec (polygon_to_string,                   *)
(* string_to_polygon, bounding_rectangle, polygon_is_rectangle) and the    *)
(* constructors and return_polygon of ThermalEventInstance and HotSpot.    *)
(***************************************************************************)
EXTENDS Integers, Sequences, FiniteSets, TLC

\* Python's None for the nullable integer attributes (all real values are >= 0).
None == -1

\* Bounds of the event model.
MaxTs == 2
MaxTemp == 2
MaxAdds == 3

\* Bounds of the from_polygon model: the largest x coordinate, the longest
\* input polygon and the largest budget (max_polygon_string_length).
MaxX == 11
MaxPts == 4
MaxBudget == 12

\* Bounds of the codec model: the longest polygon, the longest raw string
\* handed to string_to_polygon and the largest coordinate.
MaxCodecPts == 6
MaxStr == 5
MaxCoord == 12

\* Bound of the event-level polygon model: the largest number of hull vertices.
MaxHull == 80

\* The largest value of a pixel of an image.
MaxPix == 2

\* The largest number of calls of operations of crud.thermal_event.
MaxCalls == 3

VARIABLES
    hot_spots,          \* ThermalEvent.hot_spots: list of hot spot records
    computed,           \* ThermalEvent._computed
    initial_timestamp,  \* ThermalEvent.initial_timestamp
    final_timestamp,    \* ThermalEvent.final_timestamp
    duration,           \* ThermalEvent.duration
    maximum,            \* ThermalEvent.maximum
    polygon,            \* ThermalEvent.polygon (the event-level polygon)
    max_T_timestamp,    \* the event's max-temperature timestamp
    nadds,              \* number of add_hot_spot calls so far (hot spot identity)
    last,               \* the last call on the event and how it ended
    pre,                \* the event as it was when compute() was entered, if it was the last call
    fp_pc,              \* from_polygon: "idle", "loop", "returned" or "raised"
    fp_input,           \* from_polygon: the polygon argument
    max_polygon_string_length,  \* from_polygon: the budget argument
    fp_polygon,         \* from_polygon: the local variable polygon
    nb_points,          \* from_polygon: the local variable nb_points
    requested,          \* the arguments of the from_number calls made so far
    instance,           \* the instance from_polygon returned
    calls,              \* the from_polygon calls completed before the current one
    codec,              \* a call of a codec function: its input, what was applied, its result
    object,             \* an instance under construction: class, constructor, argument, fields
    gp,                 \* compute(): the event-level polygon, from the hull to the stored string
    img,                \* set_image(): the image, the mask and the fields it assigns
    th,                 \* two threads running compute(), each on its own event
    db,                 \* the stored events and a call of crud.thermal_event
    ss,                 \* a session_scope block: attempts, session and database
    fd                  \* construction of an event from a dictionary

evars == <<hot_spots, computed, initial_timestamp, final_timestamp, duration,
           maximum, polygon, max_T_timestamp, nadds, last, pre>>

pvars == <<fp_pc, fp_input, max_polygon_string_length, fp_polygon, nb_points,
           requested, instance, calls>>

\* The variables of the other parts of the library.
ovars == <<gp, img, th, db, ss, fd>>

vars == <<evars, pvars, codec, object, ovars>>

\* ---------------------------------------------------------------------------
\* Helpers
\* ---------------------------------------------------------------------------
SetMin(S) == CHOOSE m \in S : \A x \in S : m <= x

SetMax(S) == CHOOSE m \in S : \A x \in S : m >= x

\* A max() that keeps the smaller operand.
PyMaxKeepsSmaller(a, b) == IF b > a THEN a ELSE b

\* Python's max(a, b) on two numbers.
PyMax(a, b) == IF b > a THEN b ELSE a

\* The event polygon attribute before any compute(): unset.
NoPolygon == {None}

\* ---------------------------------------------------------------------------
\* Hot spots
\* ---------------------------------------------------------------------------
\* A hot spot: its identity (order of creation), timestamp, max_intensity
\* (None when no image was set) and whether it has a geometry (without a
\* polygon and without a box, return_polygon() raises).
HotSpot(i, t, m, g) ==
    [id |-> i, timestamp |-> t, max_intensity |-> m, has_geometry |-> g]

\* ThermalEvent.timestamps
timestamps(hs) == [i \in 1..Len(hs) |-> hs[i].timestamp]

\* The snapshot of the event's fields.
Event == [hot_spots |-> hot_spots, computed |-> computed,
          initial_timestamp |-> initial_timestamp,
          final_timestamp |-> final_timestamp, duration |-> duration,
          maximum |-> maximum, polygon |-> polygon,
          max_T_timestamp |-> max_T_timestamp]

\* The fields of an event just constructed, without hot spots.
NoEvent == [hot_spots |-> <<>>, computed |-> None, initial_timestamp |-> None,
            final_timestamp |-> None, duration |-> None, maximum |-> None,
            polygon |-> NoPolygon, max_T_timestamp |-> None]

\* ---------------------------------------------------------------------------
\* ThermalEvent.compute, step by step
\* ---------------------------------------------------------------------------
\* A dictionary that keeps the first entry of a key (d.setdefault).
DictOfKeepsFirst(hs) ==
    [t \in {hs[i].timestamp : i \in 1..Len(hs)} |->
        hs[SetMin({i \in 1..Len(hs) : hs[i].timestamp = t})]]

\* d = {}; for s in hot_spots: d[s.timestamp] = s   (a later entry overwrites)
DictOf(hs) ==
    [t \in {hs[i].timestamp : i \in 1..Len(hs)} |->
        hs[SetMax({i \in 1..Len(hs) : hs[i].timestamp = t})]]

\* sorted(d.items(), reverse=True): descending order of the key.
RECURSIVE SortedItemsDescending(_, _)
SortedItemsDescending(d, keys) ==
    IF keys = {} THEN <<>>
    ELSE LET k == SetMax(keys) IN <<d[k]>> \o SortedItemsDescending(d, keys \ {k})

\* sorted(d.items()): the values in ascending order of their key
RECURSIVE SortedItems(_, _)
SortedItems(d, keys) ==
    IF keys = {} THEN <<>>
    ELSE LET k == SetMin(keys) IN <<d[k]>> \o SortedItems(d, keys \ {k})

\* The loop of lines 330-333: append, then update the running maximum.
\* max(None, x) raises TypeError, with s already appended.
RECURSIVE MaxLoop(_, _, _, _)
MaxLoop(sort, i, hs, m) ==
    IF i > Len(sort) THEN [hot_spots |-> hs, maximum |-> m, raised |-> FALSE]
    ELSE LET s == sort[i]
             hs2 == Append(hs, s)
         IN IF s.max_intensity # None
            THEN IF m = None
                 THEN [hot_spots |-> hs2, maximum |-> m, raised |-> TRUE]
                 ELSE MaxLoop(sort, i + 1, hs2, PyMax(m, s.max_intensity))
            ELSE MaxLoop(sort, i + 1, hs2, m)

\* compute_global_polygon: the convex hull of the stacked polygons of all hot
\* spots is a function of the polygons stacked; the model keeps the set of the
\* hot spots that were stacked.  It raises when a hot spot has no geometry.
GlobalPolygonRaises(hs) == \E i \in 1..Len(hs) : ~hs[i].has_geometry

compute_global_polygon(hs) == {hs[i].id : i \in 1..Len(hs)}

\* A check that skips as soon as any compute() has completed before.
AlreadyComputedEver(e) == e.computed # None

\* if self._computed == len(self.hot_spots): return
AlreadyComputed(e) == e.computed = Len(e.hot_spots)

\* A failure on the empty event that records the count before raising.
EmptyFailureMarksComputed(e) == [e EXCEPT !.hot_spots = <<>>, !.computed = 0]

\* The event when sort[0] raises IndexError on an empty event: hot_spots has
\* been reassigned to [] and nothing else was written.
EmptyFailure(e) == [e EXCEPT !.hot_spots = <<>>]

\* The whole of compute() on event e: the event after the call and how the
\* call ended ("skipped", "ok", or the exception raised).
ComputeResult(e) ==
    IF AlreadyComputed(e)
    THEN [event |-> e, outcome |-> "skipped"]
    ELSE
    LET d == DictOf(e.hot_spots)
        sort == SortedItems(d, DOMAIN d)
    IN  IF sort = <<>>
        THEN [event |-> EmptyFailure(e), outcome |-> "IndexError"]
        ELSE
        LET r == MaxLoop(sort, 1, <<>>, sort[1].max_intensity)
            e1 == [e EXCEPT !.hot_spots = r.hot_spots, !.maximum = r.maximum]
        IN  IF r.raised
            THEN [event |-> e1, outcome |-> "TypeError"]
            ELSE
            LET ts == timestamps(e1.hot_spots)
                e2 == [e1 EXCEPT !.initial_timestamp = ts[1],
                                 !.final_timestamp = ts[Len(ts)],
                                 !.duration = ts[Len(ts)] - ts[1]]
            IN  IF GlobalPolygonRaises(e2.hot_spots)
                THEN [event |-> e2, outcome |-> "PolygonError"]
                ELSE [event |-> [e2 EXCEPT
                                   !.polygon = compute_global_polygon(e2.hot_spots),
                                   !.computed = Len(e2.hot_spots)],
                      outcome |-> "ok"]

\* ---------------------------------------------------------------------------
\* Polygon codec
\* ---------------------------------------------------------------------------
\* A string is a sequence of one-character strings; a point is <<x, y>>.
DigitChars == <<"0", "1", "2", "3", "4", "5", "6", "7", "8", "9">>

RECURSIVE NatToStr(_)
NatToStr(n) ==
    IF n < 10 THEN <<DigitChars[n + 1]>>
    ELSE NatToStr(n \div 10) \o <<DigitChars[(n % 10) + 1]>>

\* str(n) of a Python int
IntToStr(n) == IF n < 0 THEN <<"-">> \o NatToStr(-n) ELSE NatToStr(n)

\* res += f"{p[0]} {p[1]} " for every point, in order
RECURSIVE polygon_to_string(_)
polygon_to_string(poly) ==
    IF poly = <<>> THEN <<>>
    ELSE IntToStr(poly[1][1]) \o <<" ">> \o IntToStr(poly[1][2]) \o <<" ">>
         \o polygon_to_string(Tail(poly))

\* A box under the exclusive convention (width = xmax - xmin).
bounding_rectangleExclusive(poly) ==
    LET xs == {poly[i][1] : i \in 1..Len(poly)}
        ys == {poly[i][2] : i \in 1..Len(poly)}
    IN  <<SetMin(xs), SetMin(ys), SetMax(xs) - SetMin(xs), SetMax(ys) - SetMin(ys)>>

bounding_rectangle(poly) ==
    LET xs == {poly[i][1] : i \in 1..Len(poly)}
        ys == {poly[i][2] : i \in 1..Len(poly)}
    IN  <<SetMin(xs), SetMin(ys),
          SetMax(xs) - SetMin(xs) + 1, SetMax(ys) - SetMin(ys) + 1>>

\* A rectangle test that refuses the explicitly closed, 5-point rectangles.
polygon_is_rectangleOpenOnly(poly) ==
    IF Len(poly) # 4 THEN <<>>
    ELSE LET x == {poly[i][1] : i \in 1..Len(poly)}
             y == {poly[i][2] : i \in 1..Len(poly)}
         IN  IF Cardinality(x) = 2 /\ Cardinality(y) = 2
             THEN <<SetMin(x), SetMin(y),
                    SetMax(x) - SetMin(x) + 1, SetMax(y) - SetMin(y) + 1>>
             ELSE <<>>

\* polygon_is_rectangle: the rectangle, or <<>> for None.
polygon_is_rectangle(poly) ==
    IF Len(poly) < 4 \/ Len(poly) > 5 THEN <<>>
    ELSE LET x == {poly[i][1] : i \in 1..Len(poly)}
             y == {poly[i][2] : i \in 1..Len(poly)}
         IN  IF Cardinality(x) = 2 /\ Cardinality(y) = 2
             THEN <<SetMin(x), SetMin(y),
                    SetMax(x) - SetMin(x) + 1, SetMax(y) - SetMin(y) + 1>>
             ELSE <<>>

\* Python's None where a polygon string is expected.
NoString == <<"None">>

\* string.split(" "): the pieces between the spaces, empty ones included;
\* cur is the piece being read.
RECURSIVE split(_, _)
split(string, cur) ==
    IF string = <<>> THEN <<cur>>
    ELSE IF Head(string) = " " THEN <<cur>> \o split(Tail(string), <<>>)
    ELSE split(Tail(string), Append(cur, Head(string)))

\* [x for x in string.split(" ") if x != ""]
tokens(string) == SelectSeq(split(string, <<>>), LAMBDA x : x # <<>>)

IsDigit(c) == \E d \in 1..10 : DigitChars[d] = c

\* The digits of an integer literal: the token without its sign.
Digits(x) == IF x # <<>> /\ Head(x) \in {"-", "+"} THEN Tail(x) ELSE x

\* int(x) accepts an optional sign followed by at least one digit.
IsIntLiteral(x) ==
    /\ Digits(x) # <<>>
    /\ \A i \in 1..Len(Digits(x)) : IsDigit(Digits(x)[i])

RECURSIVE StrToNat(_)
StrToNat(ds) ==
    IF ds = <<>> THEN 0
    ELSE 10 * StrToNat(SubSeq(ds, 1, Len(ds) - 1))
         + ((CHOOSE d \in 1..10 : DigitChars[d] = ds[Len(ds)]) - 1)

\* An int() that forgets the sign.
StrToIntUnsigned(x) == StrToNat(Digits(x))

\* int(x) of an integer literal
StrToInt(x) == IF Head(x) = "-" THEN 0 - StrToNat(Digits(x)) ELSE StrToNat(Digits(x))

\* int(x) raises ValueError on a token that is not an integer literal.
string_to_polygon_raises(string) ==
    /\ string # NoString
    /\ \E i \in 1..Len(tokens(string)) : ~IsIntLiteral(tokens(string)[i])

\* A decoder that hands every point back as (y, x).
string_to_polygonSwapped(string) ==
    IF string = NoString THEN <<>>
    ELSE LET toks == tokens(string)
             flat == [i \in 1..Len(toks) |-> StrToInt(toks[i])]
         IN  [k \in 1..(Len(flat) \div 2) |-> <<flat[2 * k], flat[2 * k - 1]>>]

\* string_to_polygon: [] for None; otherwise the integers flat[i : i + 2] for
\* i = 0, 2, 4, ...: the last slice holds one integer when their number is odd.
string_to_polygon(string) ==
    IF string = NoString THEN <<>>
    ELSE LET toks == tokens(string)
             flat == [i \in 1..Len(toks) |-> StrToInt(toks[i])]
         IN  [k \in 1..((Len(flat) + 1) \div 2) |->
                 SubSeq(flat, 2 * k - 1, IF 2 * k <= Len(flat) THEN 2 * k ELSE Len(flat))]

\* ---------------------------------------------------------------------------
\* Polygon simplifier (Visvalingam-Whyatt ranking)
\* ---------------------------------------------------------------------------
Abs(n) == IF n < 0 THEN -n ELSE n

\* Twice the area of the triangle a, b, c.
TriangleArea2(a, b, c) ==
    Abs(a[1] * (b[2] - c[2]) + b[1] * (c[2] - a[2]) + c[1] * (a[2] - b[2]))

\* Delete position k of a sequence.
RemoveAt(q, k) == SubSeq(q, 1, k - 1) \o SubSeq(q, k + 1, Len(q))

\* The order in which the vertices are removed: while an interior vertex is
\* left, the one of least effective area (with its two current neighbours; the
\* first one on a tie) goes next; the two end points go last.
\* idx is the sequence of the indices still present.
RECURSIVE RemovalOrder(_, _)
RemovalOrder(pts, idx) ==
    IF Len(idx) <= 2
    THEN IF Len(idx) = 2 THEN <<idx[2], idx[1]>> ELSE idx
    ELSE LET area(k) == TriangleArea2(pts[idx[k - 1]], pts[idx[k]], pts[idx[k + 1]])
             least == SetMin({area(k) : k \in 2..(Len(idx) - 1)})
             k0 == SetMin({k \in 2..(Len(idx) - 1) : area(k) = least})
         IN  <<idx[k0]>> \o RemovalOrder(pts, RemoveAt(idx, k0))

\* The subsequence of pts at the indices of keep, in the original order.
RECURSIVE Retain(_, _, _)
Retain(pts, keep, i) ==
    IF i > Len(pts) THEN <<>>
    ELSE (IF i \in keep THEN <<pts[i]>> ELSE <<>>) \o Retain(pts, keep, i + 1)

\* VWSimplifier(pts).from_number(n): the n vertices removed latest, in the
\* original order (all of them when n >= len(pts), none when n <= 0).
from_number(pts, n) ==
    LET order == RemovalOrder(pts, [i \in 1..Len(pts) |-> i])
        first == IF n >= Len(pts) THEN 1
                 ELSE IF n <= 0 THEN Len(pts) + 1
                 ELSE Len(pts) - n + 1
        keep == {order[i] : i \in first..Len(pts)}
    IN  Retain(pts, keep, 1)

\* ---------------------------------------------------------------------------
\* from_polygon
\* ---------------------------------------------------------------------------
Points == {0, 2, MaxX} \X {0, 3}

RECURSIVE PolygonsOfLen(_)
PolygonsOfLen(n) ==
    IF n = 0 THEN {<<>>}
    ELSE {Append(q, p) : q \in PolygonsOfLen(n - 1), p \in Points}

\* The input polygons: 1 to MaxPts integer points.
Polygons == UNION {PolygonsOfLen(n) : n \in 1..MaxPts}

Budgets == 0..MaxBudget

\* A budget test that counts the vertices instead of the characters.
FitsCountingVertices(poly, budget) == Len(poly) <= budget

\* A budget test that halves the budget when it is odd.
FitsHalvedOnOddBudgets(poly, budget) ==
    Len(polygon_to_string(poly)) <= (IF budget % 2 = 1 THEN budget \div 2 ELSE budget)

\* The negation of the while condition:
\* len(polygon_to_string(polygon)) > max_polygon_string_length
Fits(poly, budget) == Len(polygon_to_string(poly)) <= budget

\* A removal of the rows that repeat the row just before them only.
RECURSIVE RemoveConsecutiveDuplicateRows(_, _)
RemoveConsecutiveDuplicateRows(poly, i) ==
    IF i > Len(poly) THEN <<>>
    ELSE (IF i > 1 /\ poly[i - 1] = poly[i] THEN <<>> ELSE <<poly[i]>>)
         \o RemoveConsecutiveDuplicateRows(poly, i + 1)

\* _, idx = np.unique(polygon, axis=0, return_index=True)
\* polygon = polygon[np.sort(idx)]: the first occurrence of every row, in order.
RECURSIVE RemoveDuplicateRows(_, _)
RemoveDuplicateRows(poly, i) ==
    IF i > Len(poly) THEN <<>>
    ELSE (IF \E j \in 1..(i - 1) : poly[j] = poly[i] THEN <<>> ELSE <<poly[i]>>)
         \o RemoveDuplicateRows(poly, i + 1)

NoInstance == [polygon |-> <<>>, bbox |-> <<>>]

InitPoly ==
    /\ fp_pc = "idle"
    /\ fp_input = <<>>
    /\ max_polygon_string_length = 0
    /\ fp_polygon = <<>>
    /\ nb_points = 0
    /\ requested = <<>>
    /\ instance = NoInstance
    /\ calls = <<>>

\* The call on a polygon and a budget, up to the loop:
\* nb_points = len(polygon) - 1.
from_polygon_call ==
    /\ fp_pc = "loop"
    /\ fp_input \in Polygons
    /\ max_polygon_string_length \in Budgets
    /\ fp_polygon = fp_input
    /\ nb_points = Len(fp_input) - 1
    /\ requested = <<>>
    /\ instance = NoInstance
    /\ calls = <<>>

\* One iteration of the while loop.
from_polygon_simplify ==
    /\ fp_pc = "loop"
    /\ ~Fits(fp_polygon, max_polygon_string_length)
    /\ fp_polygon' = from_number(fp_input, nb_points)
    /\ requested' = Append(requested, nb_points)
    /\ nb_points' = nb_points - 1
    /\ UNCHANGED <<fp_pc, fp_input, max_polygon_string_length, instance, calls>>
    /\ UNCHANGED <<evars, codec, object, ovars>>

\* After the loop: rounding (the coordinates are integers already), removal of
\* duplicate rows, the polygon string and the box.  bounding_rectangle raises
\* IndexError on an empty polygon.
from_polygon_finish ==
    /\ fp_pc = "loop"
    /\ Fits(fp_polygon, max_polygon_string_length)
    /\ LET poly == RemoveDuplicateRows(fp_polygon, 1)
           rect == polygon_is_rectangle(poly)
       IN  /\ fp_polygon' = poly
           /\ IF rect = <<>> /\ poly = <<>>
              THEN /\ fp_pc' = "raised"
                   /\ instance' = NoInstance
              ELSE /\ fp_pc' = "returned"
                   /\ instance' = [polygon |-> polygon_to_string(poly),
                                   bbox |-> IF rect = <<>> THEN bounding_rectangle(poly)
                                            ELSE rect]
    /\ UNCHANGED <<fp_input, max_polygon_string_length, nb_points, requested, calls>>
    /\ UNCHANGED <<evars, codec, object, ovars>>

\* A completed from_polygon call: its arguments, how it ended ("returned" or
\* "raised") and the polygon string it stored.
Call ==
    [polygon |-> fp_input, budget |-> max_polygon_string_length, pc |-> fp_pc,
     stored |-> instance.polygon]

\* from_polygon(instance.polygon_as_list, max_polygon_string_length=budget) on
\* the instance a first call returned, with the budget of that call.
from_polygon_again ==
    /\ fp_pc = "returned"
    /\ calls = <<>>
    /\ calls' = <<Call>>
    /\ fp_pc' = "loop"
    /\ fp_input' = string_to_polygon(instance.polygon)
    /\ fp_polygon' = fp_input'
    /\ nb_points' = Len(fp_input') - 1
    /\ requested' = <<>>
    /\ instance' = NoInstance
    /\ UNCHANGED max_polygon_string_length
    /\ UNCHANGED <<evars, codec, object, ovars>>

\* from_polygon on the same polygon with the next larger budget.
from_polygon_next_budget ==
    /\ fp_pc \in {"returned", "raised"}
    /\ max_polygon_string_length < MaxBudget
    /\ calls' = Append(calls, Call)
    /\ fp_pc' = "loop"
    /\ max_polygon_string_length' = max_polygon_string_length + 1
    /\ fp_polygon' = fp_input
    /\ nb_points' = Len(fp_input) - 1
    /\ requested' = <<>>
    /\ instance' = NoInstance
    /\ UNCHANGED fp_input
    /\ UNCHANGED <<evars, codec, object, ovars>>

\* ---------------------------------------------------------------------------
\* Initial state and actions of the event
\* ---------------------------------------------------------------------------
InitEvent ==
    /\ hot_spots = NoEvent.hot_spots
    /\ computed = NoEvent.computed
    /\ initial_timestamp = NoEvent.initial_timestamp
    /\ final_timestamp = NoEvent.final_timestamp
    /\ duration = NoEvent.duration
    /\ maximum = NoEvent.maximum
    /\ polygon = NoEvent.polygon
    /\ max_T_timestamp = NoEvent.max_T_timestamp
    /\ nadds = 0
    /\ last = [op |-> "init", outcome |-> "ok"]
    /\ pre = NoEvent

\* add_hot_spot(hot_spot): the list gets one more hot spot, of any timestamp
\* and intensity; at most one hot spot of the list has no geometry.
add_hot_spot ==
    /\ nadds < MaxAdds
    /\ \E t \in 1..MaxTs, m \in {None} \cup (1..MaxTemp), g \in BOOLEAN :
          /\ g \/ ~GlobalPolygonRaises(hot_spots)
          /\ hot_spots' = Append(hot_spots, HotSpot(nadds + 1, t, m, g))
    /\ nadds' = nadds + 1
    /\ last' = [op |-> "add_hot_spot", outcome |-> "ok"]
    /\ pre' = NoEvent
    /\ UNCHANGED <<computed, initial_timestamp, final_timestamp, duration,
                   maximum, polygon, max_T_timestamp>>
    /\ UNCHANGED <<pvars, codec, object, ovars>>

compute ==
    LET r == ComputeResult(Event) IN
    /\ hot_spots' = r.event.hot_spots
    /\ computed' = r.event.computed
    /\ initial_timestamp' = r.event.initial_timestamp
    /\ final_timestamp' = r.event.final_timestamp
    /\ duration' = r.event.duration
    /\ maximum' = r.event.maximum
    /\ polygon' = r.event.polygon
    /\ max_T_timestamp' = r.event.max_T_timestamp
    /\ last' = [op |-> "compute", outcome |-> r.outcome]
    /\ pre' = Event
    /\ UNCHANGED nadds
    /\ UNCHANGED <<pvars, codec, object, ovars>>

\* ---------------------------------------------------------------------------
\* The codec functions, applied to every polygon and every string
\* ---------------------------------------------------------------------------
CodecPoints == ({-1, 0, MaxCoord} \X {-3}) \cup ({-1, MaxCoord} \X {4})

\* The polygons of n integer points, negative ones included.
CodecPolygonsOfLen(n) == [1..n -> CodecPoints]

Alphabet == {" ", "-", "1", "2"}

\* The strings of n characters.
StringsOfLen(n) == [1..n -> Alphabet]

\* A codec call: pc is the kind of input, then the function applied to it;
\* polygon and string are the arguments (string also the encoding made of
\* polygon); result is the value returned and raised the exception ("" for
\* none).
CodecCall(pc, poly, string, result, raised) ==
    [pc |-> pc, polygon |-> poly, string |-> string, result |-> result,
     raised |-> raised]

IdleCodec == codec = CodecCall("idle", <<>>, NoString, <<>>, "")

\* The input of the codec functions: a polygon of at most MaxCodecPts points,
\* or a raw string (None, or at most MaxStr characters).
codec_input ==
    \/ \E n \in 0..MaxCodecPts : \E poly \in CodecPolygonsOfLen(n) :
          codec = CodecCall("polygon", poly, NoString, <<>>, "")
    \/ \E n \in 0..MaxStr : \E string \in StringsOfLen(n) :
          codec = CodecCall("string", <<>>, string, <<>>, "")
    \/ codec = CodecCall("string", <<>>, NoString, <<>>, "")

\* polygon_to_string(polygon); also StrikeLineDescriptor.__init__ on a list
\* of segmented points.
call_polygon_to_string ==
    /\ codec.pc = "polygon"
    /\ codec' = [codec EXCEPT !.pc = "encoded",
                              !.string = polygon_to_string(codec.polygon)]
    /\ UNCHANGED <<evars, pvars, object, ovars>>

\* string_to_polygon(string), on a raw string or on the string just encoded;
\* also StrikeLineDescriptor.segmented_points_as_list.
call_string_to_polygon ==
    /\ codec.pc \in {"string", "encoded"}
    /\ codec' = [codec EXCEPT
                   !.pc = IF codec.pc = "encoded" THEN "round_trip" ELSE "decoded",
                   !.raised = IF string_to_polygon_raises(codec.string)
                              THEN "ValueError" ELSE "",
                   !.result = IF string_to_polygon_raises(codec.string)
                              THEN <<>> ELSE string_to_polygon(codec.string)]
    /\ UNCHANGED <<evars, pvars, object, ovars>>

\* bounding_rectangle(polygon); polygon[0] raises IndexError on an empty one.
call_bounding_rectangle ==
    /\ codec.pc = "polygon"
    /\ codec' = [codec EXCEPT
                   !.pc = "bounding_rectangle",
                   !.raised = IF codec.polygon = <<>> THEN "IndexError" ELSE "",
                   !.result = IF codec.polygon = <<>> THEN <<>>
                              ELSE bounding_rectangle(codec.polygon)]
    /\ UNCHANGED <<evars, pvars, object, ovars>>

\* polygon_is_rectangle(polygon)
call_polygon_is_rectangle ==
    /\ codec.pc = "polygon"
    /\ codec' = [codec EXCEPT !.pc = "polygon_is_rectangle",
                              !.result = polygon_is_rectangle(codec.polygon)]
    /\ UNCHANGED <<evars, pvars, object, ovars>>

\* ---------------------------------------------------------------------------
\* The event-level polygon of compute()
\* ---------------------------------------------------------------------------
\* max_points = 75, and the length of the column ThermalEvent.polygon.
max_points == 75

PolygonColumnLength == 600

\* (q - p) x (r - p): positive when r lies to the left of the ray from p to q.
Cross(p, q, r) == (q[1] - p[1]) * (r[2] - p[2]) - (q[2] - p[2]) * (r[1] - p[1])

\* The squared distance of p and q.
Dist2(p, q) == (q[1] - p[1]) * (q[1] - p[1]) + (q[2] - p[2]) * (q[2] - p[2])

\* Of two candidates for the successor of p on the hull, the one the other
\* lies to the left of (the farther one when they are in line with p); p
\* itself stands for no candidate.
Outer(p, a, b) ==
    IF b = p THEN a
    ELSE IF a = p THEN b
    ELSE IF Cross(p, a, b) < 0 THEN b
    ELSE IF Cross(p, a, b) = 0 /\ Dist2(p, b) > Dist2(p, a) THEN b
    ELSE a

\* The successor of p on the hull among pts[lo..hi]: the point every other
\* point lies to the left of, seen from p; p when there is no other point.
RECURSIVE NextOnHull(_, _, _, _)
NextOnHull(pts, p, lo, hi) ==
    IF lo = hi THEN pts[lo]
    ELSE LET mid == (lo + hi) \div 2
             a == NextOnHull(pts, p, lo, mid)
             b == NextOnHull(pts, p, mid + 1, hi)
         IN  Outer(p, a, b)

\* The k points met after p when walking around the hull.
RECURSIVE Wrap(_, _, _)
Wrap(pts, p, k) ==
    IF k = 0 THEN <<>>
    ELSE IF k = 1 THEN <<NextOnHull(pts, p, 1, Len(pts))>>
    ELSE LET a == Wrap(pts, p, k \div 2)
         IN  a \o Wrap(pts, a[Len(a)], k - (k \div 2))

\* cv2.convexHull(points): the vertices of the convex hull, each once, in
\* order around the hull from the lowest (then leftmost) point: the walk from
\* that point up to its return there.
convexHull(pts) ==
    LET S == {pts[i] : i \in 1..Len(pts)}
        ymin == SetMin({p[2] : p \in S})
        start == <<SetMin({p[1] : p \in {q \in S : q[2] = ymin}}), ymin>>
        walk == Wrap(pts, start, Cardinality(S))
        back == SetMin({i \in 1..Len(walk) : walk[i] = start})
    IN  <<start>> \o SubSeq(walk, 1, back - 1)

\* np.vstack of the polygons of the hot spots.
RECURSIVE vstack(_)
vstack(polys) == IF polys = <<>> THEN <<>> ELSE Head(polys) \o vstack(Tail(polys))

\* The i-th point of a convex arc whose points are all hull vertices.
ArcPoint(offset, i) == <<offset + i, offset + i * i>>

\* The polygon of hot spot j of h: every h-th point of an arc of n points and,
\* for the first one, a point inside the hull; closed as HotSpot.return_polygon
\* closes it.
HotSpotPolygon(offset, n, h, j) ==
    LET I == {i \in 0..(n - 1) : i % h = j}
        arc == [k \in 1..Cardinality(I) |-> ArcPoint(offset, j + (k - 1) * h)]
        poly == IF j = 0 /\ n >= 4 THEN Append(arc, <<offset + 1, offset + 2>>)
                ELSE arc
    IN  IF poly[1] # poly[Len(poly)] THEN Append(poly, poly[1]) ELSE poly

\* The event-level polygon: pc is "call", "hull" or "done"; polygons are the
\* polygons return_polygon() gives for the hot spots, poly the local variable
\* poly and string the value assigned to ThermalEvent.polygon.
GlobalPolygon(pc, polygons, poly, string) ==
    [pc |-> pc, polygons |-> polygons, poly |-> poly, string |-> string]

IdleGlobalPolygon == gp = GlobalPolygon("idle", <<>>, <<>>, <<>>)

\* The hot spots of the event: 1 or 2 of them, stacking 1 to MaxHull hull
\* vertices of small or of 4-digit coordinates.
global_polygon_input ==
    \E n \in 1..MaxHull, h \in {1, 2}, offset \in {0, 1000} :
       /\ h <= n
       /\ gp = GlobalPolygon("call",
                             [j \in 1..h |-> HotSpotPolygon(offset, n, h, j - 1)],
                             <<>>, <<>>)

\* poly = self.compute_global_polygon()
compute_global_polygon_call ==
    /\ gp.pc = "call"
    /\ gp' = [gp EXCEPT !.pc = "hull", !.poly = convexHull(vstack(gp.polygons))]
    /\ UNCHANGED <<evars, pvars, codec, object, img, th, db, ss, fd>>

\* The rest of compute(): a hull of more than max_points vertices is replaced
\* by from_number(max_points) (the loop ends after this one pass, the result
\* having max_points vertices), and the polygon is stored as its string.
compute_store_polygon ==
    /\ gp.pc = "hull"
    /\ LET poly == IF Len(gp.poly) > max_points
                   THEN from_number(gp.poly, max_points) ELSE gp.poly
       IN  gp' = [gp EXCEPT !.pc = "done", !.poly = poly,
                            !.string = polygon_to_string(poly)]
    /\ UNCHANGED <<evars, pvars, codec, object, img, th, db, ss, fd>>

\* ---------------------------------------------------------------------------
\* Construction of an instance and return_polygon
\* ---------------------------------------------------------------------------
\* The two classes that carry a polygon and a box: ThermalEventInstance
\* (bbox_x, bbox_y, bbox_width, bbox_height) and HotSpot (left_box, top_box,
\* width_box, height_box).  The variable instance holds the polygon string and
\* the box of the object; <<>> is a box that was never assigned.
Classes == {"ThermalEventInstance", "HotSpot"}

\* The rectangles (x, y, w, h) handed to from_rectangle.
Rects == {0, 5} \X {3} \X {1, 2, 10} \X {1, 2}

\* An object under construction: pc is "call" before the constructor ran, then
\* "built" or "raised", "cleared" once the polygon was emptied, and
\* "return_polygon" after that call; via names the constructor and arg its
\* argument; returned and raised are the outcome of return_polygon and before
\* the fields as they were when it was called.
Object(pc, class, via, arg) ==
    [pc |-> pc, class |-> class, via |-> via, arg |-> arg, returned |-> <<>>,
     raised |-> "", before |-> NoInstance]

IdleInstance == object = Object("idle", "", "", <<>>)

\* The constructor call to make: the class, the constructor and its argument.
object_input ==
    \E class \in Classes :
       \/ \E list \in {<<>>} \cup Polygons :
             \/ object = Object("call", class, "init_list", list)
             \/ object = Object("call", class, "init_string", polygon_to_string(list))
       \/ \E rect \in Rects : object = Object("call", class, "from_rectangle", rect)

\* The object is built and its polygon was not emptied since.
Built ==
    \/ object.pc = "built"
    \/ object.pc = "call" /\ object.via = "from_polygon" /\ fp_pc = "returned"

\* ThermalEventInstance(timestamp_ns, polygon=value): a polygon other than ""
\* sets the box to the bounding rectangle of its points (IndexError when it
\* has none); a list is stored as its string.
ThermalEventInstance_init ==
    /\ object.class = "ThermalEventInstance"
    /\ object.pc = "call"
    /\ object.via \in {"init_list", "init_string"}
    /\ LET value == object.arg
           isstr == object.via = "init_string"
           derives == ~isstr \/ value # <<>>
           poly == IF isstr THEN string_to_polygon(value) ELSE value
       IN  IF derives /\ poly = <<>>
           THEN /\ object' = [object EXCEPT !.pc = "raised", !.raised = "IndexError"]
                /\ UNCHANGED instance
           ELSE /\ object' = [object EXCEPT !.pc = "built"]
                /\ instance' = [polygon |-> IF isstr THEN value
                                            ELSE polygon_to_string(value),
                                bbox |-> IF derives THEN bounding_rectangle(poly)
                                         ELSE <<>>]
    /\ UNCHANGED <<fp_pc, fp_input, max_polygon_string_length, fp_polygon,
                   nb_points, requested, calls>>
    /\ UNCHANGED <<evars, codec, ovars>>

\* HotSpot(timestamp, polygon=value): a list is stored as its string; no box
\* is assigned.
HotSpot_init ==
    /\ object.class = "HotSpot"
    /\ object.pc = "call"
    /\ object.via \in {"init_list", "init_string"}
    /\ object' = [object EXCEPT !.pc = "built"]
    /\ instance' = [polygon |-> IF object.via = "init_string" THEN object.arg
                                ELSE polygon_to_string(object.arg),
                    bbox |-> <<>>]
    /\ UNCHANGED <<fp_pc, fp_input, max_polygon_string_length, fp_polygon,
                   nb_points, requested, calls>>
    /\ UNCHANGED <<evars, codec, ovars>>

\* A rectangle polygon whose far corners are x + w and y + h.
RectanglePolygonExclusive(rect) ==
    <<<<rect[1], rect[2]>>,
      <<rect[1] + rect[3], rect[2]>>,
      <<rect[1] + rect[3], rect[2] + rect[4]>>,
      <<rect[1], rect[2] + rect[4]>>>>

\* The four corners of the box (x, y, w, h), both edges counted.
RectanglePolygon(rect) ==
    <<<<rect[1], rect[2]>>,
      <<rect[1] + rect[3] - 1, rect[2]>>,
      <<rect[1] + rect[3] - 1, rect[2] + rect[4] - 1>>,
      <<rect[1], rect[2] + rect[4] - 1>>>>

\* ThermalEventInstance.from_rectangle(rect)
ThermalEventInstance_from_rectangle ==
    /\ object.class = "ThermalEventInstance"
    /\ object.pc = "call"
    /\ object.via = "from_rectangle"
    /\ object' = [object EXCEPT !.pc = "built"]
    /\ instance' = [polygon |-> polygon_to_string(RectanglePolygon(object.arg)),
                    bbox |-> object.arg]
    /\ UNCHANGED <<fp_pc, fp_input, max_polygon_string_length, fp_polygon,
                   nb_points, requested, calls>>
    /\ UNCHANGED <<evars, codec, ovars>>

\* HotSpot.from_rectangle(rect): the corners are at left + width and
\* top + height, and the first corner is repeated at the end.
HotSpot_from_rectangle ==
    /\ object.class = "HotSpot"
    /\ object.pc = "call"
    /\ object.via = "from_rectangle"
    /\ object' = [object EXCEPT !.pc = "built"]
    /\ LET l == object.arg[1]
           t == object.arg[2]
           w == object.arg[3]
           h == object.arg[4]
       IN  instance' = [polygon |-> polygon_to_string(
                                       <<<<l, t>>, <<l + w, t>>, <<l + w, t + h>>,
                                         <<l, t + h>>, <<l, t>>>>),
                        bbox |-> object.arg]
    /\ UNCHANGED <<fp_pc, fp_input, max_polygon_string_length, fp_polygon,
                   nb_points, requested, calls>>
    /\ UNCHANGED <<evars, codec, ovars>>

\* instance.polygon = "" (or None) on a built object: the box alone is left.
set_polygon_empty ==
    /\ Built
    /\ \E value \in {<<>>, NoString} :
          instance' = [instance EXCEPT !.polygon = value]
    /\ object' = [object EXCEPT !.pc = "cleared"]
    /\ UNCHANGED <<fp_pc, fp_input, max_polygon_string_length, fp_polygon,
                   nb_points, requested, calls>>
    /\ UNCHANGED <<evars, codec, ovars>>

\* ThermalEventInstance.return_polygon(): the stored polygon, or the four
\* corners of the box when there is none (TypeError on a box of None).
ThermalEventInstance_return_polygon ==
    /\ object.class = "ThermalEventInstance"
    /\ Built \/ object.pc = "cleared"
    /\ LET poly == string_to_polygon(instance.polygon)
       IN  object' = [object EXCEPT
                        !.pc = "return_polygon",
                        !.before = instance,
                        !.raised = IF Len(poly) = 0 /\ instance.bbox = <<>>
                                   THEN "TypeError" ELSE "",
                        !.returned = IF Len(poly) > 0 THEN poly
                                     ELSE IF instance.bbox = <<>> THEN <<>>
                                     ELSE RectanglePolygon(instance.bbox)]
    /\ UNCHANGED pvars
    /\ UNCHANGED <<evars, codec, ovars>>

\* HotSpot.return_polygon(): the stored polygon, closed by its first point
\* when it is not closed already, or the closed rectangle of the box when
\* there is none (TypeError on a box of None).
HotSpot_return_polygon ==
    /\ object.class = "HotSpot"
    /\ Built \/ object.pc = "cleared"
    /\ LET poly == string_to_polygon(instance.polygon)
           res == IF Len(poly) > 0
                  THEN (IF poly[1] # poly[Len(poly)] THEN Append(poly, poly[1])
                        ELSE poly)
                  ELSE IF instance.bbox = <<>> THEN <<>>
                  ELSE Append(RectanglePolygon(instance.bbox),
                              <<instance.bbox[1], instance.bbox[2]>>)
       IN  object' = [object EXCEPT
                        !.pc = "return_polygon",
                        !.before = instance,
                        !.raised = IF Len(poly) = 0 /\ instance.bbox = <<>>
                                   THEN "TypeError" ELSE "",
                        !.returned = res]
    /\ UNCHANGED pvars
    /\ UNCHANGED <<evars, codec, ovars>>

\* The other parts of the library are not running.
\* ---------------------------------------------------------------------------
\* Pixel statistics: set_image and the image part of from_mask
\* ---------------------------------------------------------------------------
\* The infrared image has ImgH rows of ImgW pixels holding 0..MaxPix; a pixel
\* is <<x, y>> with image[y][x] its value, rows and columns counted from 0.
ImgW == 3

ImgH == 2

Images == [0..(ImgH - 1) -> [0..(ImgW - 1) -> 0..MaxPix]]

\* The bound of a Python slice over an axis of n elements.
SliceBound(i, n) == IF i < 0 THEN (IF i + n < 0 THEN 0 ELSE i + n)
                    ELSE IF i > n THEN n ELSE i

\* cv2.fillPoly(np.zeros(shape), [poly], color=1) for a convex polygon whose
\* edges are horizontal, vertical or diagonal: the pixels of the shape inside
\* the polygon or on its boundary.
fillPoly(rows, cols, poly) ==
    LET n == Len(poly)
        side(p, i) == Cross(poly[i], poly[(i % n) + 1], p)
        box == bounding_rectangle(poly)
    IN  {p \in (0..(cols - 1)) \X (0..(rows - 1)) :
            /\ box[1] <= p[1] /\ p[1] < box[1] + box[3]
            /\ box[2] <= p[2] /\ p[2] < box[2] + box[4]
            /\ \/ \A i \in 1..n : side(p, i) >= 0
               \/ \A i \in 1..n : side(p, i) <= 0}

\* The first pixel of a set in the order of np.where: row by row, and from
\* left to right in a row.
RowMajorFirst(S) ==
    CHOOSE p \in S : \A q \in S : p[2] < q[2] \/ (p[2] = q[2] /\ p[1] <= q[1])

\* p comes before q in the order of np.where.
Before(p, q) == p[2] < q[2] \/ (p[2] = q[2] /\ p[1] < q[1])

\* The pixels of S in the order of np.where.
RowMajor(S) ==
    [i \in 1..Cardinality(S) |->
        CHOOSE p \in S : Cardinality({q \in S : Before(q, p)}) = i - 1]

\* The sum of the first i elements of q.
RECURSIVE SumTo(_, _)
SumTo(q, i) == IF i = 0 THEN 0 ELSE q[i] + SumTo(q, i - 1)

SumSeq(q) == SumTo(q, Len(q))

\* An argmax that gives the last position of the maximum.
argmaxLast(q) == SetMax({i \in 1..Len(q) : \A j \in 1..Len(q) : q[j] <= q[i]})

\* np.argmax / np.argmin of a sequence: the first position of the extreme.
argmax(q) == SetMin({i \in 1..Len(q) : \A j \in 1..Len(q) : q[j] <= q[i]})

argmin(q) == SetMin({i \in 1..Len(q) : \A j \in 1..Len(q) : q[j] >= q[i]})

\* A float that is the quotient of two integers, as <<numerator, denominator>>.
Fraction(a, b) == <<a, b>>

\* The values of q in ascending order: the i-th is the value that fewer than
\* i elements are below and at least i elements are not above.
Ascending(q) ==
    LET I == 1..Len(q)
    IN  [i \in I |->
            CHOOSE v \in {q[j] : j \in I} :
                /\ Cardinality({j \in I : q[j] < v}) < i
                /\ Cardinality({j \in I : q[j] <= v}) >= i]

\* 100 * np.quantile(values, 1 - N / 100): linear interpolation between the
\* two order statistics around position (1 - N / 100) * (n - 1).
quantile100(values, N) ==
    LET s == Ascending(values)
        pos100 == (100 - N) * (Len(s) - 1)
        k == pos100 \div 100
        r == pos100 % 100
    IN  IF r = 0 THEN 100 * s[k + 1]
        ELSE 100 * s[k + 1] + r * (s[k + 2] - s[k + 1])

quantile_list == <<50, 25, 10, 5>>

\* f"{x} {y} {w} {h}"
BoxString(x, y, w, h) ==
    IntToStr(x) \o <<" ">> \o IntToStr(y) \o <<" ">> \o IntToStr(w) \o <<" ">>
    \o IntToStr(h)

\* The quantile box in the frame of the coordinates (ignoring the origin
\* x_0, y_0 of the crop).
QuantileBoxOfCrop(x_0, y_0, sel) ==
    LET xs == {p[1] : p \in sel}
        ys == {p[2] : p \in sel}
    IN  BoxString(SetMin(xs), SetMin(ys),
                  SetMax(xs) - SetMin(xs) + 1, SetMax(ys) - SetMin(ys) + 1)

\* The quantile box of the selected pixels (coordinates relative to x_0, y_0).
QuantileBox(x_0, y_0, sel) ==
    LET xs == {p[1] : p \in sel}
        ys == {p[2] : p \in sel}
    IN  BoxString(x_0 + SetMin(xs), y_0 + SetMin(ys),
                  SetMax(xs) - SetMin(xs) + 1, SetMax(ys) - SetMin(ys) + 1)

\* The quantile boxes: for every N of quantile_list, the box of the pixels of
\* coords whose value is at least the quantile of all the values.
Quantiles(x_0, y_0, coords, ir_polygon) ==
    [c \in 1..Len(quantile_list) |->
        LET quantile == quantile100(ir_polygon, quantile_list[c])
            ind == {i \in 1..Len(coords) : 100 * ir_polygon[i] >= quantile}
        IN  QuantileBox(x_0, y_0, {coords[i] : i \in ind})]

\* The fields assigned from the image, under the names of
\* ThermalEventInstance; HotSpot calls them area, max_intensity,
\* min_intensity, mean_intensity, centroid_x, centroid_y, max_location_x,
\* max_location_y, min_location_x, min_location_y and quantile_50 ..
\* quantile_5.  None is a field that was never assigned.
NoFields ==
    [pixel_area |-> None, max_temperature_C |-> None, min_temperature_C |-> None,
     average_temperature_C |-> None,
     centroid_image_position_x |-> None, centroid_image_position_y |-> None,
     max_T_image_position_x |-> None, max_T_image_position_y |-> None,
     min_T_image_position_x |-> None, min_T_image_position_y |-> None,
     quantiles |-> None]

\* The statistics of the pixels coords (in the order of np.where, relative to
\* x_0, y_0) holding the values ir_polygon, the area apart.
Statistics(fields, x_0, y_0, coords, ir_polygon, compute_quantiles) ==
    LET n == Len(coords)
        posmax == argmax(ir_polygon)
        posmin == argmin(ir_polygon)
    IN  [fields EXCEPT
            !.max_temperature_C = ir_polygon[posmax],
            !.min_temperature_C = ir_polygon[posmin],
            !.average_temperature_C = Fraction(SumSeq(ir_polygon), n),
            !.centroid_image_position_x =
                Fraction(x_0 * n + SumSeq([i \in 1..n |-> coords[i][1]]), n),
            !.centroid_image_position_y =
                Fraction(y_0 * n + SumSeq([i \in 1..n |-> coords[i][2]]), n),
            !.max_T_image_position_x = x_0 + coords[posmax][1],
            !.max_T_image_position_y = y_0 + coords[posmax][2],
            !.min_T_image_position_x = x_0 + coords[posmin][1],
            !.min_T_image_position_y = y_0 + coords[posmin][2],
            !.quantiles = IF compute_quantiles
                          THEN Quantiles(x_0, y_0, coords, ir_polygon)
                          ELSE fields.quantiles]

\* A call on an object of the class with the polygon (a list of points, <<>>
\* for none) and the box: pc is "call", then the name of the operation or
\* "raised"; fields are the fields of the object, before as they were at the
\* call; coords and x_0, y_0 are the local variables of that name.
ImageCall(pc, class, compute_quantiles, poly, box, image) ==
    [pc |-> pc, class |-> class, compute_quantiles |-> compute_quantiles,
     polygon |-> poly, box |-> box, ir_image |-> image,
     fields |-> NoFields, before |-> NoFields, coords |-> <<>>,
     x_0 |-> 0, y_0 |-> 0]

\* No call of set_image or from_mask is modelled.
IdleImage == img = [pc |-> "idle"]

\* The polygons of the objects: rectangles, a triangle, a point, and
\* rectangles partly or wholly beyond the image.
ImagePolygons ==
    {<<<<0, 0>>, <<ImgW - 1, 0>>, <<ImgW - 1, 1>>, <<0, 1>>>>,
     <<<<1, 0>>, <<2, 0>>, <<2, 1>>, <<1, 1>>>>,
     <<<<0, 0>>, <<1, 0>>, <<1, 1>>>>,
     <<<<1, 1>>>>,
     <<<<ImgW - 1, 1>>, <<ImgW, 1>>, <<ImgW, 2>>, <<ImgW - 1, 2>>>>,
     <<<<ImgW, 0>>, <<ImgW + 1, 0>>, <<ImgW + 1, 1>>, <<ImgW, 1>>>>}

image_input ==
    \E class \in Classes, q \in BOOLEAN, image \in Images :
       /\ (class = "HotSpot") \/ ~q
       /\ \/ \E poly \in ImagePolygons :
                img = ImageCall("call", class, q, poly, <<>>, image)
          \/ img = ImageCall("call", class, q, <<>>, <<1, 0, 2, 2>>, image)

\* set_image(ir_image) of the two classes.  A HotSpot without a polygon uses
\* its box; np.min of an empty polygon raises in ThermalEventInstance.  The
\* image is cropped to the box of the polygon, the translated polygon is
\* filled, and the fields are assigned one after the other: the area first,
\* then max() raises on an empty selection.
set_image(class) ==
    /\ img.pc = "call"
    /\ img.class = class
    /\ LET box == img.box
           poly == IF img.polygon = <<>> /\ class = "HotSpot"
                   THEN <<<<box[1], box[2]>>, <<box[1] + box[3] - 1, box[2]>>,
                          <<box[1] + box[3] - 1, box[2] + box[4] - 1>>,
                          <<box[1], box[2] + box[4] - 1>>>>
                   ELSE img.polygon
       IN  IF poly = <<>>
           THEN img' = [img EXCEPT !.pc = "raised"]
           ELSE LET x_0 == SetMin({poly[i][1] : i \in 1..Len(poly)})
                    y_0 == SetMin({poly[i][2] : i \in 1..Len(poly)})
                    x_1 == SetMax({poly[i][1] : i \in 1..Len(poly)})
                    y_1 == SetMax({poly[i][2] : i \in 1..Len(poly)})
                    shifted == [i \in 1..Len(poly) |->
                                   <<poly[i][1] - x_0, poly[i][2] - y_0>>]
                    row0 == SliceBound(y_0, ImgH)
                    col0 == SliceBound(x_0, ImgW)
                    rows == PyMax(SliceBound(y_1 + 1, ImgH) - row0, 0)
                    cols == PyMax(SliceBound(x_1 + 1, ImgW) - col0, 0)
                IN  \E coords \in {RowMajor(fillPoly(rows, cols, shifted))} :
                    \E ir_polygon \in {[i \in 1..Len(coords) |->
                      img.ir_image[row0 + coords[i][2]][col0 + coords[i][1]]]} :
                    \E sized \in {[img.fields EXCEPT !.pixel_area = Len(coords)]} :
                       IF coords = <<>>
                       THEN img' = [img EXCEPT !.pc = "raised", !.fields = sized,
                                               !.x_0 = x_0, !.y_0 = y_0]
                       ELSE img' = [img EXCEPT
                                !.pc = "set_image", !.coords = coords,
                                !.x_0 = x_0, !.y_0 = y_0,
                                !.fields = Statistics(sized, x_0, y_0, coords,
                                               ir_polygon, img.compute_quantiles)]
    /\ UNCHANGED <<evars, pvars, codec, object, gp, th, db, ss, fd>>

ThermalEventInstance_set_image == set_image("ThermalEventInstance")

HotSpot_set_image == set_image("HotSpot")

\* The image part of HotSpot.from_mask(mask, ir_image=ir_image): the pixels
\* of the mask are those covered by the polygon, in the frame of the image;
\* the arrays have one row holding them all, and the area is their shape[0].
HotSpot_from_mask ==
    /\ img.pc = "call"
    /\ img.class = "HotSpot"
    /\ img.polygon # <<>>
    /\ fillPoly(ImgH, ImgW, img.polygon) # {}
    /\ \E coords \in {RowMajor(fillPoly(ImgH, ImgW, img.polygon))} :
       \E ir_polygon \in {[i \in 1..Len(coords) |->
                              img.ir_image[coords[i][2]][coords[i][1]]]} :
       \E sized \in {[img.fields EXCEPT !.pixel_area = 1]} :
          img' = [img EXCEPT
                    !.pc = "from_mask", !.coords = coords,
                    !.fields = Statistics(sized, 0, 0, coords, ir_polygon,
                                          img.compute_quantiles)]
    /\ UNCHANGED <<evars, pvars, codec, object, gp, th, db, ss, fd>>

\* ---------------------------------------------------------------------------
\* compute() in two threads
\* ---------------------------------------------------------------------------
Threads == {"A", "B"}

\* A frame shared by the calls of all the threads.
SharedFrame(t) == "A"

\* The frame holding the local variables d and sort (and the position in the
\* loop) of the call of compute() that thread t runs.
Frame(t) == t

NoFrame == [d |-> <<>>, sort |-> <<>>, i |-> 0]

\* Two threads, each calling compute() on its own event: pc is the statement
\* a thread is at ("call", "dict", "sort", "loop", "timestamps", "polygon",
\* "computed", then "returned" or "raised"), event the fields of its event and
\* start those fields at the call; buffer and mutex are the class attributes
\* _buffer and _mutex of HotSpot; turn is the thread that stepped last and
\* switches counts (up to 2) how often the turn changed.
TwoThreads(pc, events) ==
    [pc |-> pc, event |-> events, start |-> events,
     frame |-> [t \in Threads |-> NoFrame],
     buffer |-> None, mutex |-> "unlocked", turn |-> "none", switches |-> 0]

\* No thread is modelled.
IdleThreads == th = [pc |-> "idle"]

\* The lists of at most two hot spots with timestamps 1 or 2, with or without
\* max_intensity, the last one with or without a geometry when g is TRUE.
ThreadHotSpots(g) ==
    LET spot(i, final) ==
            {HotSpot(i, t, m, has) :
                t \in {1, 2}, m \in {None, 2},
                has \in IF final /\ g THEN BOOLEAN ELSE {TRUE}}
    IN  {<<>>} \cup {<<a>> : a \in spot(1, TRUE)}
        \cup {<<a, b>> : a \in spot(1, FALSE), b \in spot(2, TRUE)}

threads_input ==
    \E a \in ThreadHotSpots(TRUE), b \in ThreadHotSpots(FALSE),
       c \in BOOLEAN :
       th = TwoThreads([t \in Threads |-> "call"],
                ("A" :> [NoEvent EXCEPT !.hot_spots = a,
                            !.computed = IF c THEN Len(a) ELSE None])
                @@ ("B" :> [NoEvent EXCEPT !.hot_spots = b]))

\* Thread t takes a step that leaves it at pc with its event e and frame f.
Step(t, pc, e, f) ==
    /\ th' = [th EXCEPT !.pc[t] = pc, !.event[t] = e, !.frame[Frame(t)] = f,
                        !.turn = t,
                        !.switches = IF th.turn \notin {"none", t} /\ @ < 2
                                     THEN @ + 1 ELSE @]
    /\ UNCHANGED <<evars, pvars, codec, object, gp, img, db, ss, fd>>

\* if self._computed == len(self.hot_spots): return
compute_check ==
    \E t \in Threads :
       /\ th.pc[t] = "call"
       /\ Step(t, IF AlreadyComputed(th.event[t]) THEN "returned" ELSE "dict",
               th.event[t], th.frame[Frame(t)])

\* d = {}; for s in self.hot_spots: d[s.timestamp] = s
compute_dict ==
    \E t \in Threads :
       /\ th.pc[t] = "dict"
       /\ Step(t, "sort", th.event[t],
               [th.frame[Frame(t)] EXCEPT !.d = DictOf(th.event[t].hot_spots)])

\* sort = sorted(d.items()); self.hot_spots = [];
\* self.maximum = sort[0][1].max_intensity   (IndexError on an empty event)
compute_sort ==
    \E t \in Threads :
       /\ th.pc[t] = "sort"
       /\ LET d == th.frame[Frame(t)].d
              sort == SortedItems(d, DOMAIN d)
              e == [th.event[t] EXCEPT !.hot_spots = <<>>]
          IN  IF sort = <<>>
              THEN Step(t, "raised", e, th.frame[Frame(t)])
              ELSE Step(t, "loop",
                        [e EXCEPT !.maximum = sort[1].max_intensity],
                        [th.frame[Frame(t)] EXCEPT !.sort = sort, !.i = 1])

\* for s in sort: self.hot_spots.append(s[1]); if s[1].max_intensity is not
\* None: self.maximum = max(self.maximum, s[1].max_intensity)
compute_loop ==
    \E t \in Threads :
       /\ th.pc[t] = "loop"
       /\ LET f == th.frame[Frame(t)]
              e == th.event[t]
          IN  IF f.i > Len(f.sort)
              THEN Step(t, "timestamps", e, f)
              ELSE LET s == f.sort[f.i]
                       e1 == [e EXCEPT !.hot_spots = Append(@, s)]
                       f1 == [f EXCEPT !.i = @ + 1]
                   IN  IF s.max_intensity = None THEN Step(t, "loop", e1, f1)
                       ELSE IF e.maximum = None THEN Step(t, "raised", e1, f)
                       ELSE Step(t, "loop",
                                 [e1 EXCEPT !.maximum = PyMax(@, s.max_intensity)],
                                 f1)

\* self.initial_timestamp, self.final_timestamp, self.duration
compute_timestamps ==
    \E t \in Threads :
       /\ th.pc[t] = "timestamps"
       /\ LET ts == timestamps(th.event[t].hot_spots)
          IN  Step(t, "polygon",
                   [th.event[t] EXCEPT !.initial_timestamp = ts[1],
                                       !.final_timestamp = ts[Len(ts)],
                                       !.duration = ts[Len(ts)] - ts[1]],
                   th.frame[Frame(t)])

\* poly = self.compute_global_polygon(); ...; self.polygon = polygon_to_string(poly)
compute_polygon ==
    \E t \in Threads :
       /\ th.pc[t] = "polygon"
       /\ IF GlobalPolygonRaises(th.event[t].hot_spots)
          THEN Step(t, "raised", th.event[t], th.frame[Frame(t)])
          ELSE Step(t, "computed",
                    [th.event[t] EXCEPT
                        !.polygon = compute_global_polygon(th.event[t].hot_spots)],
                    th.frame[Frame(t)])

\* self._computed = len(self.hot_spots)
compute_computed ==
    \E t \in Threads :
       /\ th.pc[t] = "computed"
       /\ Step(t, "returned",
               [th.event[t] EXCEPT !.computed = Len(th.event[t].hot_spots)],
               th.frame[Frame(t)])

\* ---------------------------------------------------------------------------
\* session_scope and the operations of crud.thermal_event
\* ---------------------------------------------------------------------------
\* MAX_RETRIES = 3
MAX_RETRIES == 3

\* The stored events are rows [id, method, instances], instances being the
\* number of instances of the event; the result of a query is a set of rows,
\* {} for None.
Ids == {1}

Rows == [id : Ids, method : {"a", "b"}, instances : {0, 1}]

WithId(store, id) == {r \in store : r.id = id}

\* The writes of a session, applied to the store in their order by a commit
\* that succeeds: session.add_all, session.merge, session.delete and
\* query.delete().
RECURSIVE ApplyWrites(_, _, _)
ApplyWrites(store, writes, i) ==
    IF i > Len(writes) THEN store
    ELSE LET w == writes[i]
             next == IF w.kind = "add" THEN store \cup {w.row}
                     ELSE IF w.kind = "merge"
                     THEN (store \ WithId(store, w.row.id)) \cup {w.row}
                     ELSE store \ WithId(store, w.row.id)
         IN  ApplyWrites(next, writes, i + 1)

Write(kind, row) == [kind |-> kind, row |-> row]

\* A handler that retries after every failure of the commit.
RetriesAnyFailure(outcome) == outcome # "ok"

\* except OperationalError as e: if "Deadlock found" in str(e)
DeadlockFound(outcome) == outcome = "deadlock"

\* A session_scope block run by operation op on row: pc is "body" (not used:
\* the body runs with the call), "commit", "deadlock" (in the handler of the
\* deadlock), "except" (in the outer handler), "finally", then "returned" or
\* "raised"; attempt is the loop variable, outcomes the outcomes of the
\* commits so far, log the calls of commit, rollback and close on the session,
\* pending the writes the session holds, writes those the body made, entry the
\* store when the block was entered, value what the body returns and error
\* the exception in flight.
Scope(pc, op, row, pending, entry, value, error) ==
    [pc |-> pc, op |-> op, row |-> row, attempt |-> 0, outcomes |-> <<>>,
     log |-> <<>>, pending |-> pending, writes |-> pending, entry |-> entry,
     value |-> value, error |-> error]

NoRow == [id |-> 0, method |-> "", instances |-> 0]

\* No session_scope block is modelled.
IdleSession == ss = [pc |-> "idle"]

\* The store, the number of calls made, the value the last call returned, and
\* the call before the current one: its operation, its row, whether its id
\* was stored when it was called, how it ended and the outcomes of its commits.
Store(store, ncalls, result, prev) ==
    [store |-> store, calls |-> ncalls, result |-> result, prev |-> prev]

NoCall == [op |-> "none", row |-> NoRow, stored |-> FALSE, outcome |-> "none",
           outcomes |-> <<>>]

\* No store is modelled.
IdleStore == db = [pc |-> "idle"]

\* An empty store, before the first call.
store_input ==
    /\ db = Store({}, 0, {}, NoCall)
    /\ ss = Scope("idle", "none", NoRow, <<>>, {}, {}, "none")

\* The call that is over when the next one starts.
LastCall ==
    [op |-> ss.op, row |-> ss.row,
     stored |-> WithId(ss.entry, ss.row.id) # {}, outcome |-> ss.pc,
     outcomes |-> ss.outcomes]

\* A call of an operation: session = get_db(), then the body of the with
\* block, which makes the writes and evaluates value, or raises.
Enter(op, row, writes, value, raises) ==
    /\ ss.pc \in {"idle", "returned", "raised"}
    /\ db.calls < MaxCalls
    /\ db' = [db EXCEPT !.calls = @ + 1,
                        !.prev = IF ss.pc = "idle" THEN NoCall ELSE LastCall]
    /\ ss' = IF raises
             THEN Scope("except", op, row, <<>>, db.store, {}, "BodyError")
             ELSE Scope("commit", op, row, writes, db.store, value, "none")
    /\ UNCHANGED <<evars, pvars, codec, object, gp, img, th, fd>>

\* CRUDBase.get(id): return session.query(self.model).filter(...).first()
CRUDBase_get ==
    \E row \in Rows, raises \in BOOLEAN :
       Enter("get", row, <<>>, WithId(db.store, row.id), raises)

\* CRUDBase.create(obj_in): session.add_all(obj_in), for a new event.
CRUDBase_create ==
    \E row \in Rows, raises \in BOOLEAN :
       /\ WithId(db.store, row.id) = {}
       /\ Enter("create", row, <<Write("add", row)>>, {}, raises)

\* CRUDThermalEvent.update(obj_in): session.delete(obj) for an event without
\* instances (which raises for an event that is not stored), session.merge(obj)
\* otherwise.
CRUDThermalEvent_update ==
    \E row \in Rows, raises \in BOOLEAN :
       Enter("update", row,
             <<Write(IF row.instances = 0 THEN "delete" ELSE "merge", row)>>, {},
             raises \/ (row.instances = 0 /\ WithId(db.store, row.id) = {}))

\* CRUDThermalEvent.delete(events):
\* session.query(ThermalEvent).filter_by(id=event).delete()
CRUDThermalEvent_delete ==
    \E row \in Rows, raises \in BOOLEAN :
       Enter("delete", row, <<Write("delete", row)>>, {}, raises)

\* for attempt in range(MAX_RETRIES): try: session.commit(); break
\* The commit succeeds, fails on a deadlock or fails otherwise.
session_commit ==
    /\ ss.pc = "commit"
    /\ \E outcome \in {"ok", "deadlock", "other"} :
          /\ ss' = [ss EXCEPT
                      !.outcomes = Append(@, outcome),
                      !.log = Append(@, "commit"),
                      !.pending = IF outcome = "ok" THEN <<>> ELSE @,
                      !.error = IF outcome = "ok" THEN "none"
                                ELSE "OperationalError",
                      !.pc = IF outcome = "ok" THEN "finally"
                             ELSE IF DeadlockFound(outcome) THEN "deadlock"
                             ELSE "except"]
          /\ db' = [db EXCEPT !.store = IF outcome = "ok"
                                        THEN ApplyWrites(@, ss.pending, 1) ELSE @]
    /\ UNCHANGED <<evars, pvars, codec, object, gp, img, th, fd>>

\* session.rollback(); time.sleep(RETRY_DELAY); then the next attempt, or the
\* else branch of the loop: raise Exception("Transaction failed after
\* multiple retries.").  The rollback discards what the session holds.
deadlock_retry ==
    /\ ss.pc = "deadlock"
    /\ ss' = [ss EXCEPT
                !.log = Append(@, "rollback"),
                !.pending = <<>>,
                !.attempt = @ + 1,
                !.error = IF ss.attempt + 1 < MAX_RETRIES THEN "none"
                          ELSE "Transaction failed after multiple retries.",
                !.pc = IF ss.attempt + 1 < MAX_RETRIES THEN "commit" ELSE "except"]
    /\ UNCHANGED <<evars, pvars, codec, object, gp, img, th, db, fd>>

\* except Exception: session.rollback(); raise
except_rollback ==
    /\ ss.pc = "except"
    /\ ss' = [ss EXCEPT !.log = Append(@, "rollback"), !.pending = <<>>,
                        !.pc = "finally"]
    /\ UNCHANGED <<evars, pvars, codec, object, gp, img, th, db, fd>>

\* finally: session.close(); the call returns the value of the body or the
\* exception goes on to the caller.
finally_close ==
    /\ ss.pc = "finally"
    /\ ss' = [ss EXCEPT !.log = Append(@, "close"),
                        !.pc = IF ss.error = "none" THEN "returned" ELSE "raised"]
    /\ db' = [db EXCEPT !.result = IF ss.error = "none" THEN ss.value ELSE @]
    /\ UNCHANGED <<evars, pvars, codec, object, gp, img, th, fd>>

\* ---------------------------------------------------------------------------
\* Construction of an event from a dictionary
\* ---------------------------------------------------------------------------
\* A construction from data, the list of the hot spots of the dictionary: pc
\* is "call", then "init" (ThermalEvent(**data) returned), "from_dict"
\* (ThermalEvent.from_dict(data) returned) or "raised"; event holds the fields
\* of the event.
FromDict(pc, data, event) == [pc |-> pc, data |-> data, event |-> event]

\* No construction from a dictionary is modelled.
IdleFromDict == fd = [pc |-> "idle"]

\* The lists of at most 3 hot spots, in every order of their timestamps, with
\* or without max_intensity.
DictHotSpots(n) ==
    {[i \in 1..n |-> HotSpot(i, f[i][1], f[i][2], TRUE)] :
        f \in [1..n -> (1..(MaxTs + 1)) \X {None, MaxTemp}]}

from_dict_input ==
    \E n \in 0..3 : \E data \in DictHotSpots(n) :
       fd = FromDict("call", data, NoEvent)

\* ThermalEvent(**data) with a hot_spots entry: self._computed = None,
\* self.hot_spots = [HotSpot(**x) for x in value], then self.compute().
Constructed(data) == ComputeResult([NoEvent EXCEPT !.hot_spots = data])

ThermalEvent_init ==
    /\ fd.pc = "call"
    /\ LET r == Constructed(fd.data)
       IN  fd' = [fd EXCEPT !.event = r.event,
                            !.pc = IF r.outcome = "ok" THEN "init" ELSE "raised"]
    /\ UNCHANGED <<evars, pvars, codec, object, gp, img, th, db, ss>>

\* ThermalEvent.from_dict(data): out = cls(**data); out.hot_spots =
\* [HotSpot(**x) for x in data["hot_spots"]]; out.compute(); return out
ThermalEvent_from_dict ==
    /\ fd.pc = "call"
    /\ LET out == Constructed(fd.data)
           r == ComputeResult([out.event EXCEPT !.hot_spots = fd.data])
       IN  IF out.outcome # "ok"
           THEN fd' = [fd EXCEPT !.event = out.event, !.pc = "raised"]
           ELSE fd' = [fd EXCEPT
                         !.event = r.event,
                         !.pc = IF r.outcome \in {"ok", "skipped"}
                                THEN "from_dict" ELSE "raised"]
    /\ UNCHANGED <<evars, pvars, codec, object, gp, img, th, db, ss>>

IdleOthers ==
    /\ IdleGlobalPolygon /\ IdleImage /\ IdleThreads /\ IdleStore
    /\ IdleSession /\ IdleFromDict

Init == InitEvent /\ InitPoly /\ IdleCodec /\ IdleInstance /\ IdleOthers

\* The event: instances are added and the event is aggregated.
Next == add_hot_spot \/ compute

Spec == Init /\ [][Next]_vars

\* from_polygon, called on every polygon and budget.
InitFromPolygon ==
    InitEvent /\ from_polygon_call /\ IdleCodec /\ IdleInstance /\ IdleOthers

NextPoly == from_polygon_simplify \/ from_polygon_finish

SpecPoly == InitFromPolygon /\ [][NextPoly]_vars

\* The constructors of both classes, called on every argument, then
\* return_polygon on the object, with its polygon or after it was emptied.
InitInstance ==
    /\ InitEvent
    /\ IdleCodec
    /\ IdleOthers
    /\ \/ InitPoly /\ object_input
       \/ from_polygon_call
          /\ \E class \in Classes : object = Object("call", class, "from_polygon", <<>>)

NextInstance ==
    \/ ThermalEventInstance_init
    \/ HotSpot_init
    \/ ThermalEventInstance_from_rectangle
    \/ HotSpot_from_rectangle
    \/ from_polygon_simplify
    \/ from_polygon_finish
    \/ set_polygon_empty
    \/ ThermalEventInstance_return_polygon
    \/ HotSpot_return_polygon

SpecInstance == InitInstance /\ [][NextInstance]_vars

\* from_polygon on every polygon and budget, then once more on its result.
NextAgain == from_polygon_simplify \/ from_polygon_finish \/ from_polygon_again

SpecAgain == InitFromPolygon /\ [][NextAgain]_vars

\* from_polygon on every polygon, with the budgets 0, 1, ..., MaxBudget in turn.
InitBudgets == InitFromPolygon /\ max_polygon_string_length = 0

NextBudgets ==
    from_polygon_simplify \/ from_polygon_finish \/ from_polygon_next_budget

SpecBudgets == InitBudgets /\ [][NextBudgets]_vars

NextCodec ==
    \/ call_polygon_to_string
    \/ call_string_to_polygon
    \/ call_bounding_rectangle
    \/ call_polygon_is_rectangle

\* The codec functions, called on every polygon and every raw string.
InitCodec == InitEvent /\ InitPoly /\ codec_input /\ IdleInstance /\ IdleOthers

SpecCodec == InitCodec /\ [][NextCodec]_vars

\* ---------------------------------------------------------------------------
\* Properties of the temporal aggregation
\* ---------------------------------------------------------------------------
ComputeReturned(o) == last.op = "compute" /\ last.outcome = o

ComputeRaised == last.op = "compute" /\ last.outcome \notin {"ok", "skipped"}

\* The timestamps held by a list of hot spots.
TsOf(hs) == {hs[i].timestamp : i \in 1..Len(hs)}

\* The hot spots of hs that no later hot spot of hs shares a timestamp with.
LastInserted(hs) ==
    {hs[i] : i \in {k \in 1..Len(hs) :
                     \A j \in (k + 1)..Len(hs) : hs[j].timestamp # hs[k].timestamp}}

\* The greatest max_intensity among a set of hot spots (None when none has one).
GreatestMax(S) ==
    LET M == {h.max_intensity : h \in S} \ {None}
    IN  IF M = {} THEN None ELSE SetMax(M)

\* C1: after a completed compute() on a non-empty event, initial_timestamp is
\* the smallest and final_timestamp the largest timestamp of the instances,
\* duration is their difference (0 for one timestamp, never negative), and
\* maximum is the greatest max_intensity of the instances the event holds
\* (the last inserted of each timestamp), whatever the insertion order.
C1_Aggregation ==
    ComputeReturned("ok") =>
        /\ initial_timestamp = SetMin(TsOf(pre.hot_spots))
        /\ final_timestamp = SetMax(TsOf(pre.hot_spots))
        /\ duration = final_timestamp - initial_timestamp
        /\ duration >= 0
        /\ (Cardinality(TsOf(pre.hot_spots)) = 1 => duration = 0)
        /\ maximum = GreatestMax(LastInserted(pre.hot_spots))

\* Instances inserted out of timestamp order, the later timestamp inserted
\* first and holding the maximum.
C1_Witness ==
    /\ ComputeReturned("ok")
    /\ timestamps(pre.hot_spots) = <<2, 1>>
    /\ pre.hot_spots[1].max_intensity = 2
    /\ pre.hot_spots[2].max_intensity = 1
    /\ initial_timestamp = 1 /\ final_timestamp = 2 /\ duration = 1 /\ maximum = 2

\* C2: after a completed compute(), the event's max-temperature timestamp is
\* the smallest timestamp among the instances whose max_intensity equals the
\* event maximum.
C2_MaxTimestamp ==
    (ComputeReturned("ok") /\ maximum # None) =>
        max_T_timestamp =
            SetMin({hot_spots[i].timestamp : i \in
                      {k \in 1..Len(hot_spots) : hot_spots[k].max_intensity = maximum}})

\* C3: after a completed compute(), each timestamp held before the call is
\* held by exactly one instance, and that instance is the one inserted last
\* with that timestamp.
C3_Dedup ==
    ComputeReturned("ok") =>
        \A t \in TsOf(pre.hot_spots) :
            LET I == {i \in 1..Len(hot_spots) : hot_spots[i].timestamp = t}
                J == {j \in 1..Len(pre.hot_spots) : pre.hot_spots[j].timestamp = t}
            IN  /\ Cardinality(I) = 1
                /\ \A i \in I : hot_spots[i] = pre.hot_spots[SetMax(J)]

\* Two instances with different contents share a timestamp and a third one
\* has another timestamp.
C3_Witness ==
    /\ ComputeReturned("ok")
    /\ Len(pre.hot_spots) = 3
    /\ Len(hot_spots) = 2
    /\ \E i, j \in 1..3 :
          /\ i < j
          /\ pre.hot_spots[i].timestamp = pre.hot_spots[j].timestamp
          /\ pre.hot_spots[i].max_intensity # pre.hot_spots[j].max_intensity

\* C4: after a completed compute(), the instance list is in strictly ascending
\* timestamp order and its timestamps are exactly the distinct timestamps held
\* before the call, one instance each.
C4_Sorted ==
    ComputeReturned("ok") =>
        /\ \A i \in 1..(Len(hot_spots) - 1) :
              timestamps(hot_spots)[i] < timestamps(hot_spots)[i + 1]
        /\ TsOf(hot_spots) = TsOf(pre.hot_spots)
        /\ Len(timestamps(hot_spots)) = Cardinality(TsOf(pre.hot_spots))

\* The instances were added out of order, one timestamp twice.
C4_Witness ==
    /\ ComputeReturned("ok")
    /\ timestamps(pre.hot_spots) = <<2, 1, 2>>
    /\ timestamps(hot_spots) = <<1, 2>>

\* C5: after each compute() that returns, the summary fields equal the
\* aggregation of the instances the event holds.
C5_NeverStale ==
    (last.op = "compute" /\ last.outcome \in {"ok", "skipped"}) =>
        /\ initial_timestamp = SetMin(TsOf(hot_spots))
        /\ final_timestamp = SetMax(TsOf(hot_spots))
        /\ duration = final_timestamp - initial_timestamp
        /\ maximum = GreatestMax(LastInserted(hot_spots))

\* C6: compute() is skipped exactly when the number of instances equals the
\* recorded count, and a skipped call leaves every field of the event as it was.
C6_SkipByCount ==
    last.op = "compute" =>
        /\ (last.outcome = "skipped") <=> (pre.computed = Len(pre.hot_spots))
        /\ (last.outcome = "skipped") => (Event = pre)

\* A second compute() on an aggregated event of two instances.
C6_Witness ==
    /\ ComputeReturned("skipped")
    /\ pre.computed = 2
    /\ Len(pre.hot_spots) = 2

\* C7: compute() on an event without instance raises, and the instance list,
\* the summary fields and the recorded count are as before the call.
C7_EmptyFails ==
    (last.op = "compute" /\ pre.hot_spots = <<>>) =>
        /\ last.outcome = "IndexError"
        /\ Event = pre

C7_Witness ==
    /\ last.op = "compute"
    /\ pre.hot_spots = <<>>
    /\ last.outcome = "IndexError"
    /\ hot_spots = <<>>

\* C8: a compute() that raises leaves the event exactly as it was before the
\* call.
C8_FailureAtomic == ComputeRaised => (Event = pre)

\* ---------------------------------------------------------------------------
\* Properties of from_polygon
\* ---------------------------------------------------------------------------
\* C9: whenever from_polygon returns an instance, the stored polygon string is
\* at most max_polygon_string_length characters long.
C9_WithinBudget ==
    fp_pc = "returned" => Len(instance.polygon) <= max_polygon_string_length

\* The input did not fit, the loop simplified it, and the removal of duplicate
\* rows then shortened it further.
C9_Witness ==
    /\ fp_pc = "returned"
    /\ ~Fits(fp_input, max_polygon_string_length)
    /\ requested # <<>>
    /\ Len(fp_polygon) < Len(from_number(fp_input, requested[Len(requested)]))
    /\ instance.polygon # <<>>

\* C10: the loop never requests a vertex count below 1: when nothing fits by
\* the time the target reaches 1 the call fails instead of requesting 0.
C10_TargetAtLeastOne ==
    \A i \in 1..Len(requested) : requested[i] >= 1

\* ---------------------------------------------------------------------------
\* Properties of the polygon codec
\* ---------------------------------------------------------------------------
\* "x y " for the first n points of poly, one after the other.
RECURSIVE ConcatPoints(_, _)
ConcatPoints(poly, n) ==
    IF n = 0 THEN <<>>
    ELSE ConcatPoints(poly, n - 1) \o IntToStr(poly[n][1]) \o <<" ">>
         \o IntToStr(poly[n][2]) \o <<" ">>

\* C11: decoding the encoding of a sequence of integer points gives the
\* sequence back (the empty one and negative coordinates included); the
\* encoding is the in-order concatenation of "x y " with a trailing space; None
\* and the empty string decode to the empty polygon.
C11_RoundTrip ==
    /\ (codec.pc = "round_trip") => (codec.raised = "" /\ codec.result = codec.polygon)
    /\ (codec.pc \in {"encoded", "round_trip"}) =>
          (codec.string = ConcatPoints(codec.polygon, Len(codec.polygon)))
    /\ (codec.pc = "decoded" /\ codec.string \in {NoString, <<>>}) =>
          (codec.raised = "" /\ codec.result = <<>>)

\* A polygon of several points with negative coordinates went through
\* polygon_to_string and string_to_polygon.
C11_Witness ==
    /\ codec.pc = "round_trip"
    /\ Len(codec.polygon) >= 2
    /\ \E i \in 1..Len(codec.polygon) : codec.polygon[i][1] < 0 /\ codec.polygon[i][2] < 0
    /\ \E i \in 1..Len(codec.polygon) : codec.polygon[i][1] >= 10
    /\ codec.result = codec.polygon

\* The string holds an odd number of tokens.
OddTokens == codec.string # NoString /\ Len(tokens(codec.string)) % 2 = 1

\* C12: string_to_polygon on a string with an odd number of tokens fails: it
\* returns no polygon, and never one whose last point has a single coordinate.
C12_OddTokensFail ==
    /\ (codec.pc = "decoded" /\ OddTokens) => (codec.raised # "")
    /\ (codec.pc = "decoded" /\ codec.raised = "") =>
          (\A k \in 1..Len(codec.result) : Len(codec.result[k]) = 2)

\* C13: for a non-empty polygon bounding_rectangle returns
\* (xmin, ymin, xmax - xmin + 1, ymax - ymin + 1): every vertex lies inside the
\* box (both edges counted) and each of its four sides holds a vertex.
C13_BoundingRectangle ==
    (codec.pc = "bounding_rectangle" /\ codec.polygon # <<>>) =>
        LET r == codec.result
            I == 1..Len(codec.polygon)
        IN  /\ codec.raised = ""
            /\ \A i \in I : /\ r[1] <= codec.polygon[i][1]
                             /\ codec.polygon[i][1] <= r[1] + r[3] - 1
                             /\ r[2] <= codec.polygon[i][2]
                             /\ codec.polygon[i][2] <= r[2] + r[4] - 1
            /\ \E i \in I : codec.polygon[i][1] = r[1]
            /\ \E i \in I : codec.polygon[i][1] = r[1] + r[3] - 1
            /\ \E i \in I : codec.polygon[i][2] = r[2]
            /\ \E i \in I : codec.polygon[i][2] = r[2] + r[4] - 1

\* The box of a polygon of three different points that spans both axes.
C13_Witness ==
    /\ codec.pc = "bounding_rectangle"
    /\ Len(codec.polygon) = 3
    /\ codec.result = <<-1, -3, MaxCoord + 2, 8>>

\* The structural condition: 4 or 5 points, two x values and two y values.
TwoByTwo(poly) ==
    /\ Len(poly) \in {4, 5}
    /\ Cardinality({poly[i][1] : i \in 1..Len(poly)}) = 2
    /\ Cardinality({poly[i][2] : i \in 1..Len(poly)}) = 2

\* The box spanned by the points of poly, both edges counted.
SpannedBox(poly) ==
    LET xs == {poly[i][1] : i \in 1..Len(poly)}
        ys == {poly[i][2] : i \in 1..Len(poly)}
    IN  <<SetMin(xs), SetMin(ys), SetMax(xs) - SetMin(xs) + 1,
          SetMax(ys) - SetMin(ys) + 1>>

\* Every edge of the polygon, the closing one included, is horizontal or
\* vertical.
AxisAligned(poly) ==
    \A i \in 1..Len(poly) :
        LET a == poly[i]
            b == poly[(i % Len(poly)) + 1]
        IN  a[1] = b[1] \/ a[2] = b[2]

BuiltBy(via) == object.pc = "built" /\ object.via = via

\* C15: from_rectangle((x, y, w, h)) stores the box (x, y, w, h) unchanged and,
\* as polygon, the encoding of the corners (x, y), (x+w-1, y), (x+w-1, y+h-1),
\* (x, y+h-1) in that order; (5, 3, 10, 2) gives "5 3 14 3 14 4 5 4 ".
C15_FromRectangle ==
    BuiltBy("from_rectangle") =>
        LET x == object.arg[1]
            y == object.arg[2]
            w == object.arg[3]
            h == object.arg[4]
        IN  /\ instance.bbox = <<x, y, w, h>>
            /\ instance.polygon =
                   ConcatPoints(<<<<x, y>>, <<x + w - 1, y>>,
                                  <<x + w - 1, y + h - 1>>, <<x, y + h - 1>>>>, 4)
            /\ (object.arg = <<5, 3, 10, 2>>) =>
                   (instance.polygon =
                       <<"5", " ", "3", " ", "1", "4", " ", "3", " ",
                         "1", "4", " ", "4", " ", "5", " ", "4", " ">>)

\* C16: an instance built with a non-empty polygon, by the constructor (list
\* or string), by from_polygon or by from_rectangle, stores the box
\* bounding_rectangle of the polygon it stores.
C16_BoxDerivable ==
    (Built /\ instance.polygon \notin {<<>>, NoString}) =>
        (instance.bbox = SpannedBox(string_to_polygon(instance.polygon)))

\* The corners (x, y), (x+w-1, y), (x+w-1, y+h-1), (x, y+h-1) of a box.
Corners(box) ==
    LET x == box[1]
        y == box[2]
        w == box[3]
        h == box[4]
    IN  <<<<x, y>>, <<x + w - 1, y>>, <<x + w - 1, y + h - 1>>, <<x, y + h - 1>>>>

\* return_polygon() was called on an object that stores a polygon or a box.
ReturnedPolygon ==
    /\ object.pc = "return_polygon"
    /\ \/ object.before.polygon \notin {<<>>, NoString}
       \/ object.before.bbox # <<>>

\* What the claim lets return_polygon() return: the stored polygon, decoded,
\* or the corners of the stored box when the polygon string is empty or None.
DecodedOrCorners ==
    IF object.before.polygon \notin {<<>>, NoString}
    THEN string_to_polygon(object.before.polygon)
    ELSE Corners(object.before.bbox)

\* The object was built from a list that is an axis-aligned rectangle in the
\* corner order of its own bounding rectangle, and its polygon was emptied.
RebuiltFromRectangle ==
    /\ object.via = "init_list"
    /\ object.arg # <<>>
    /\ object.arg = Corners(SpannedBox(object.arg))
    /\ object.before.polygon \in {<<>>, NoString}

Closed(poly) ==
    IF poly[1] # poly[Len(poly)] THEN Append(poly, poly[1]) ELSE poly

FittingDone ==
    /\ fp_pc \in {"returned", "raised"}
    /\ calls = <<>>
    /\ Fits(fp_input, max_polygon_string_length)

RECURSIVE FirstOccurrences(_, _)
FirstOccurrences(poly, n) ==
    IF n = 0 THEN <<>>
    ELSE FirstOccurrences(poly, n - 1)
         \o (IF \E j \in 1..(n - 1) : poly[j] = poly[n] THEN <<>> ELSE <<poly[n]>>)

\* All the points of poly differ.
NoRepeatedPoint(poly) ==
    \A i, j \in 1..Len(poly) : (i # j) => (poly[i] # poly[j])

C18_Idempotent ==
    (calls # <<>> /\ fp_pc \in {"returned", "raised"}) =>
        /\ fp_pc = "returned"
        /\ instance.polygon = calls[1].stored
        /\ max_polygon_string_length = calls[1].budget

\* The first call had to simplify a polygon of several different points, and
\* the second call returned.
C18_Witness ==
    /\ calls # <<>>
    /\ fp_pc = "returned"
    /\ Len(calls[1].polygon) > Len(fp_input)
    /\ Len(fp_input) >= 2
    /\ fp_input[1] # fp_input[2]
    /\ instance.polygon = calls[1].stored

\* The number of vertices of a stored polygon string.
Vertices(string) == Len(tokens(string)) \div 2

InitGlobalPolygon ==
    /\ InitEvent /\ InitPoly /\ IdleCodec /\ IdleInstance /\ global_polygon_input
    /\ IdleImage /\ IdleThreads /\ IdleStore /\ IdleSession /\ IdleFromDict

NextGlobalPolygon == compute_global_polygon_call \/ compute_store_polygon

SpecGlobalPolygon == InitGlobalPolygon /\ [][NextGlobalPolygon]_vars

\* ---------------------------------------------------------------------------
\* Properties of the event-level polygon
\* ---------------------------------------------------------------------------
\* C21: after compute() the event-level polygon string fits its column (600
\* characters), for every set of instances.
C21_GlobalPolygonFits ==
    (gp.pc = "done") => (Len(gp.string) <= PolygonColumnLength)

\* ---------------------------------------------------------------------------
\* Specification of the pixel statistics
\* ---------------------------------------------------------------------------
\* set_image and from_mask on every image, for every polygon and class.
InitImage ==
    /\ InitEvent /\ InitPoly /\ IdleCodec /\ IdleInstance /\ IdleGlobalPolygon
    /\ image_input /\ IdleThreads /\ IdleStore /\ IdleSession /\ IdleFromDict

NextImage ==
    ThermalEventInstance_set_image \/ HotSpot_set_image \/ HotSpot_from_mask

SpecImage == InitImage /\ [][NextImage]_vars

\* ---------------------------------------------------------------------------
\* Properties of the pixel statistics
\* ---------------------------------------------------------------------------
\* The polygon set_image works on: the polygon of the object, or the corners
\* of its box when it has none.
ImagePolygon ==
    IF img.polygon # <<>> THEN img.polygon
    ELSE <<<<img.box[1], img.box[2]>>,
           <<img.box[1] + img.box[3] - 1, img.box[2]>>,
           <<img.box[1] + img.box[3] - 1, img.box[2] + img.box[4] - 1>>,
           <<img.box[1], img.box[2] + img.box[4] - 1>>>>

\* The masked pixels, in the frame of the whole image, and their values.
Masked == fillPoly(ImgH, ImgW, ImagePolygon)

PixelValue(p) == img.ir_image[p[2]][p[1]]

MaskedValues == {PixelValue(p) : p \in Masked}

\* The sum of the k-th coordinate over the pixels of a set.
SumOver(S, k) ==
    LET order == RowMajor(S) IN SumSeq([i \in 1..Len(order) |-> order[i][k]])

\* C22: set_image reports the number of masked pixels as the area, their
\* extreme values as max and min, the first masked pixel (row by row) holding
\* the max (min) as its position in the frame of the image, and the mean x and
\* y of the masked pixels as the centroid.
C22_SetImageStatistics ==
    (img.pc = "set_image") =>
        LET f == img.fields
            n == Cardinality(Masked)
        IN  /\ f.pixel_area = n
            /\ f.max_temperature_C = SetMax(MaskedValues)
            /\ f.min_temperature_C = SetMin(MaskedValues)
            /\ <<f.max_T_image_position_x, f.max_T_image_position_y>> =
                  RowMajorFirst({p \in Masked : PixelValue(p) = SetMax(MaskedValues)})
            /\ <<f.min_T_image_position_x, f.min_T_image_position_y>> =
                  RowMajorFirst({p \in Masked : PixelValue(p) = SetMin(MaskedValues)})
            /\ f.centroid_image_position_x[1] * n
                  = SumOver(Masked, 1) * f.centroid_image_position_x[2]
            /\ f.centroid_image_position_y[1] * n
                  = SumOver(Masked, 2) * f.centroid_image_position_y[2]
            /\ f.centroid_image_position_x[2] > 0
            /\ f.centroid_image_position_y[2] > 0

\* set_image ran on a crop that does not start at the origin, with several
\* masked pixels holding the max, none of them the first masked pixel.
C22_Witness ==
    /\ img.pc = "set_image"
    /\ img.x_0 > 0
    /\ Cardinality({p \in Masked : PixelValue(p) = SetMax(MaskedValues)}) >= 2
    /\ PixelValue(RowMajorFirst(Masked)) # SetMax(MaskedValues)

\* The box "x y w h" a quantile field holds, as <<x, y, w, h>>.
DecodedBox(string) ==
    LET toks == tokens(string) IN [i \in 1..Len(toks) |-> StrToInt(toks[i])]

\* The masked pixels at or above the quantile of all the masked values.
AtOrAbove(N) ==
    LET order == RowMajor(Masked)
        values == [i \in 1..Len(order) |-> PixelValue(order[i])]
    IN  {p \in Masked : 100 * PixelValue(p) >= quantile100(values, N)}

\* The box is the tight box of the pixels of sel: they all lie in it, and each
\* of its sides holds one of them.
TightBox(box, sel) ==
    /\ Len(box) = 4
    /\ \A p \in sel : /\ box[1] <= p[1] /\ p[1] <= box[1] + box[3] - 1
                      /\ box[2] <= p[2] /\ p[2] <= box[2] + box[4] - 1
    /\ \E p \in sel : p[1] = box[1]
    /\ \E p \in sel : p[1] = box[1] + box[3] - 1
    /\ \E p \in sel : p[2] = box[2]
    /\ \E p \in sel : p[2] = box[2] + box[4] - 1

\* C23: with quantiles enabled, the box of every N of 50, 25, 10, 5 is
\* "x y w h", without a trailing space, the tight inclusive box in the frame of
\* the image of the masked pixels at or above the quantile of all the masked
\* values.
C23_QuantileBoxes ==
    (img.pc \in {"set_image", "from_mask"} /\ img.compute_quantiles) =>
        \A c \in 1..Len(quantile_list) :
            LET string == img.fields.quantiles[c]
            IN  /\ string[Len(string)] # " "
                /\ TightBox(DecodedBox(string), AtOrAbove(quantile_list[c]))

\* Quantile boxes were written for a crop that does not start at the origin,
\* the box of the top 5% being smaller than the box of the top 50%.
C23_Witness ==
    /\ img.pc = "set_image"
    /\ img.compute_quantiles
    /\ img.x_0 > 0
    /\ AtOrAbove(5) # AtOrAbove(50)
    /\ img.fields.quantiles[4] # img.fields.quantiles[1]

\* C24: set_image on an empty set of masked pixels fails and leaves every
\* field as it was.
C24_EmptyRegionUnchanged ==
    (img.pc = "raised") => (img.fields = img.before)

\* ---------------------------------------------------------------------------
\* Specification of compute() in two threads
\* ---------------------------------------------------------------------------
\* Every interleaving of the statements of two calls of compute().
InitThreads ==
    /\ InitEvent /\ InitPoly /\ IdleCodec /\ IdleInstance /\ IdleGlobalPolygon
    /\ IdleImage /\ threads_input /\ IdleStore /\ IdleSession /\ IdleFromDict

NextThreads ==
    \/ compute_check \/ compute_dict \/ compute_sort \/ compute_loop
    \/ compute_timestamps \/ compute_polygon \/ compute_computed

SpecThreads == InitThreads /\ [][NextThreads]_vars

\* ---------------------------------------------------------------------------
\* Properties of compute() in two threads
\* ---------------------------------------------------------------------------
\* C25: when the two calls have ended, in whatever order their statements
\* ran, each event is as one call of compute() run alone leaves it, and the
\* class-level buffer and lock were not touched.
C25_ConcurrentCompute ==
    (\A t \in Threads : th.pc[t] \in {"returned", "raised"}) =>
        /\ \A t \in Threads : th.event[t] = ComputeResult(th.start[t]).event
        /\ th.buffer = None
        /\ th.mutex = "unlocked"

\* Both calls aggregated an event of two hot spots given out of order, their
\* statements alternating.
C25_Witness ==
    /\ \A t \in Threads :
          /\ th.pc[t] = "returned"
          /\ th.event[t].computed = 2
          /\ th.start[t].hot_spots[1].timestamp > th.start[t].hot_spots[2].timestamp
    /\ th.switches = 2

\* ---------------------------------------------------------------------------
\* Specification of the store
\* ---------------------------------------------------------------------------
\* Up to MaxCalls operations on the store, one after the other, each in its
\* session_scope block, with every outcome of every commit.
InitStore ==
    /\ InitEvent /\ InitPoly /\ IdleCodec /\ IdleInstance /\ IdleGlobalPolygon
    /\ IdleImage /\ IdleThreads /\ store_input /\ IdleFromDict

NextStore ==
    \/ CRUDBase_get \/ CRUDBase_create \/ CRUDThermalEvent_update
    \/ CRUDThermalEvent_delete
    \/ session_commit \/ deadlock_retry \/ except_rollback \/ finally_close

SpecStore == InitStore /\ [][NextStore]_vars

\* ---------------------------------------------------------------------------
\* Properties of the store
\* ---------------------------------------------------------------------------
\* The call before the current one was op on the event now looked up, which
\* was stored then, and it returned normally.
GetAfter(op) ==
    /\ ss.pc = "returned" /\ ss.op = "get"
    /\ db.prev.op = op /\ db.prev.outcome = "returned"
    /\ db.prev.row.id = ss.row.id /\ db.prev.stored

\* C26: get(id) returns None after an update of the stored event with an
\* empty instance list, the event with its new values after an update with
\* instances, and None after delete(event).
C26_UpdateDeleteThenGet ==
    /\ GetAfter("update") =>
          db.result = IF db.prev.row.instances = 0 THEN {} ELSE {db.prev.row}
    /\ GetAfter("delete") => db.result = {}

\* The same holds of the calls whose first commit succeeded.
UpdateDeleteThenGetWithoutDeadlock ==
    (db.prev.outcomes = <<"ok">>) => C26_UpdateDeleteThenGet

\* The position of the last commit in the log (0 for none).
LastCommit == SetMax({0} \cup {i \in 1..Len(ss.log) : ss.log[i] = "commit"})

\* C28: at most MAX_RETRIES commits are attempted; a commit is attempted
\* again only after a deadlock, which is rolled back first; any other failure
\* is raised without another attempt, 3 deadlocks end in 'Transaction failed
\* after multiple retries.'; an exception is always followed by a rollback,
\* and the session is closed, last and once, on every exit.
C28_RetryAndClose ==
    /\ Len(ss.outcomes) <= MAX_RETRIES
    /\ \A i \in 1..(Len(ss.outcomes) - 1) : ss.outcomes[i] = "deadlock"
    /\ \A i \in 1..(Len(ss.log) - 1) :
          (ss.log[i + 1] = "commit") => (ss.log[i] = "rollback")
    /\ (ss.pc \in {"returned", "raised"}) =>
          LET n == Len(ss.outcomes)
              last_outcome == IF n = 0 THEN "none" ELSE ss.outcomes[n]
          IN  /\ ss.log[Len(ss.log)] = "close"
              /\ Cardinality({i \in 1..Len(ss.log) : ss.log[i] = "close"}) = 1
              /\ (ss.pc = "returned") <=> (last_outcome = "ok")
              /\ (last_outcome = "other") => (ss.error = "OperationalError")
              /\ (last_outcome = "deadlock") =>
                    /\ n = MAX_RETRIES
                    /\ ss.error = "Transaction failed after multiple retries."
              /\ (ss.pc = "raised") =>
                    \E i \in (LastCommit + 1)..Len(ss.log) : ss.log[i] = "rollback"

\* The scope raised after MAX_RETRIES commits that all met a deadlock.
C28_Witness ==
    /\ ss.pc = "raised"
    /\ ss.outcomes = [i \in 1..MAX_RETRIES |-> "deadlock"]
    /\ ss.error = "Transaction failed after multiple retries."
    /\ ss.log = <<"commit", "rollback", "commit", "rollback", "commit",
                  "rollback", "rollback", "close">>

\* C29: when a session_scope block exits without raising, the store holds
\* the writes of its body.
C29_NormalExitCommitted ==
    (ss.pc = "returned") => (db.store = ApplyWrites(ss.entry, ss.writes, 1))

\* ---------------------------------------------------------------------------
\* Properties of the loop of from_polygon
\* ---------------------------------------------------------------------------
\* from_polygon returned after the loop ran: the polygon was over budget.
OverBudgetReturned == fp_pc = "returned" /\ requested # <<>>

\* The simplification requested last.
Kept == from_number(fp_input, requested[Len(requested)])

\* The targets were requested in decreasing order from the number of
\* vertices less one, and the last one is the first that fits.
LargestFitting ==
    /\ \A i \in 1..Len(requested) : requested[i] = Len(fp_input) - i
    /\ Fits(Kept, max_polygon_string_length)
    /\ \A i \in 1..(Len(requested) - 1) :
          ~Fits(from_number(fp_input, requested[i]), max_polygon_string_length)

InitFromDict ==
    /\ InitEvent /\ InitPoly /\ IdleCodec /\ IdleInstance /\ IdleGlobalPolygon
    /\ IdleImage /\ IdleThreads /\ IdleStore /\ IdleSession /\ from_dict_input

NextFromDict == ThermalEvent_init \/ ThermalEvent_from_dict

SpecFromDict == InitFromDict /\ [][NextFromDict]_vars

\* ---------------------------------------------------------------------------
\* Properties of the construction from a dictionary
\* ---------------------------------------------------------------------------
\* C30: after ThermalEvent(**data) and after ThermalEvent.from_dict(data) the
\* hot spots of the event are in ascending order of their timestamps, one for
\* every timestamp of data, whatever the order in data.
C30_ConstructedAggregated ==
    (fd.pc \in {"init", "from_dict"}) =>
        LET ts == timestamps(fd.event.hot_spots)
        IN  /\ \A i \in 1..(Len(ts) - 1) : ts[i] < ts[i + 1]
            /\ {ts[i] : i \in 1..Len(ts)}
                  = {fd.data[i].timestamp : i \in 1..Len(fd.data)}

\* The same for the constructor alone.
InitAggregated == (fd.pc = "init") => C30_ConstructedAggregated

====
